---- MODULE Spec2Model ----
(***************************************************************************)
(* Run lifecycle controller (src/orchestrator/controller.rs) and the test  *)
(* engine it drives (src/engine/mod.rs, latency.rs, throughput.rs).        *)
(*                                                                         *)
(* Every tokio task is a process whose position is a field of the run's    *)
(* record; a step of the model is the code between two suspension points.  *)
(* An Instant is kept as the time left until it is reached, a duration as  *)
(* the number of loop iterations that fit into it.                         *)
(*                                                                         *)
(* Spec      the controller driving engine runs whose phase durations are  *)
(*           zero (every loop exits at its first check)                    *)
(* EngSpec   one engine run with non-zero durations, driven directly       *)
(*           through its EngineControl channel                             *)
(* LiveSpec, EngLive   the same with the fairness of the tokio scheduler   *)
(* NetSpec   one engine run against a network that fails: probes without   *)
(*           an answer, or a download worker answered with any status      *)
(* OptSpec   one run of zero durations for every outcome of its            *)
(*           best-effort requests, with and without the experimental flag  *)
(* BackoffSpec   one run whose download workers are answered 200 or 429    *)
(* UiSpec    the controller with the TUI thread (src/tui/mod.rs) at the    *)
(*           other end of its command and event channels                   *)
(*                                                                         *)
(* The pure functions of the engine (src/engine/turn_udp.rs, metrics.rs,   *)
(* throughput.rs) are operators; calc holds the arguments and the result   *)
(* of one call while the controller and the engine are at rest.            *)
(* StunSpec     is_stun_binding_response on datagrams of every shape       *)
(* UdpSpec      the send/receive loop of run_udp_like_loss_probe           *)
(* WindowSpec   estimate_steady_window on sampled byte counters            *)
(* MetricsSpec  compute_latency_metrics on bounded sample vectors          *)
(* MosSpec      calculate_mos in fixed point                               *)
(* LabelSpec    quality_label on the loss of a finished UDP probe          *)
(***************************************************************************)
EXTENDS Integers, Sequences, FiniteSets, TLC

\* ---------------------------------------------------------------- bounds
MaxRuns == 2
MaxCmdQueue == 1
MaxCtrlQueue == 1
MaxProbes == 2
MaxTicks == 2
MaxWorkers == 2
DeadlineSteps == 1
HitsCap == 2
MaxAttrs == 2
MaxAttempts == 3
MaxSamples == 4

NoRun == 0
NoDeadline == -1

\* `let attempts = 50u64` of run_udp_like_loss_probe.
attempts == 50

MIN_DOWNLOAD_BYTES_PER_REQ == 100000
DefaultDownloadBytes == 10000000

Runs == 1..MaxRuns
UiCommand == {"PauseTrue", "PauseFalse", "Restart", "Quit"}
EngineControl == {"PauseTrue", "PauseFalse", "Cancel"}

VARIABLES
  test_on_launch,   \* Cli.test_on_launch
  cfg,              \* RunConfig: iterations fitting into the probe and phase durations, concurrency
  cpc,              \* run_controller: "loop" inside the select loop, "done" once it returned
  run_ctx,          \* Option<RunCtx>: NoRun or the id of the run held
  restart_pending,
  quit_pending,
  cancel_deadline,  \* Option<Instant>: NoDeadline or the clock steps left until the deadline
  cmd_q,            \* commands in flight on the UiCommand channel
  cmd_open,         \* FALSE once every UiCommand sender is dropped
  eng,              \* per run: the engine task, its listener, prober, sampler and workers
  obs,              \* per run: what the run has put on the event channel
  hist,             \* what the controller did to the run it holds
  emitted,          \* the event the controller's latest loop iteration sent, "none" if none
  calc,             \* a call of one of the pure functions: its arguments and its result
  ui                \* UiState of the TUI thread, NoUi when no TUI is attached

vars == <<test_on_launch, cfg, cpc, run_ctx, restart_pending, quit_pending, cancel_deadline,
          cmd_q, cmd_open, eng, obs, hist, emitted, calc, ui>>

ctlVars == <<cpc, run_ctx, restart_pending, quit_pending, cancel_deadline>>
envVars == <<cmd_q, cmd_open>>
cfgVars == <<test_on_launch, cfg, calc, ui>>

\* No pure function is being called.
NoCall == <<>>

Min(a, b) == IF a < b THEN a ELSE b
Max(a, b) == IF a > b THEN a ELSE b

\* LatencySummary, its counts only: sent probes and received replies.
LatencySummaryDefault == [sent |-> 0, received |-> 0]

\* stats::latency_summary_from_samples: the summary of a prober with these counts.
latency_summary_from_samples(sent, received) == [sent |-> sent, received |-> received]

\* ------------------------------------------------------------ engine state
\* The state of a run that was never started.
FreshRun ==
  [ pc       |-> "none",      \* TestEngine::run: none, meta, idle, s_head, s_pause,
                              \*   join, lat_wait, tail, done
    result   |-> "none",      \* what the JoinHandle yields: none, ok, err, panic
    paused   |-> FALSE,
    cancel   |-> FALSE,
    stop     |-> FALSE,
    lpc      |-> "off",       \* control listener: off, wait, exit
    ctrl_q   |-> <<>>,        \* EngineControl messages in flight
    phase    |-> "IdleLatency",
    ppc      |-> "off",       \* run_latency_probes: off, head, pause, probing, done
    pphase   |-> "IdleLatency",
    sent     |-> 0,
    received |-> 0,
    lat_res  |-> FALSE,       \* a LatencySummary sits in the lat_tx/lat_rx channel
    lat_msg  |-> LatencySummaryDefault,   \* that summary
    nticks   |-> 0,
    wpc      |-> <<>>,        \* per worker: check, req, done
    bytes_per_req |-> <<>>,   \* per download worker: size of its next request
    fields   |-> {},          \* optional fields of the RunResult that are Some
    udp_ran  |-> FALSE ]      \* run_udp_like_loss_probe was called

\* Events of a run: the phases of its PhaseStarted events in order, and each sample event
\* (LatencySample, ThroughputTick) with its phase tag and the number of PhaseStarted
\* events that preceded it.
\* lat_emitted and lat_ok count the LatencySample events, and those with an RTT, of the
\* prober that is running; reduced counts the "reducing bytes per request" messages of the
\* download workers.
\* chan holds the events of the run that a TUI has not received yet, each with the number
\* of the run (gen, the restarts before it) and its place among the events in the channel.
FreshObs ==
  [ phase_started |-> <<>>, samples |-> {}, lat_emitted |-> 0, lat_ok |-> 0, reduced |-> 0,
    chan |-> <<>>, gen |-> 0 ]

\* Phase, as far as the TUI tells phases apart.
Phases == {"IdleLatency", "Download", "Upload"}

\* UiState::default() with the fields run_threaded sets; per phase the series drawn (the
\* runs its points come from), the samples kept and the sent/received counts.
FreshUi ==
  [ open     |-> TRUE,        \* run_threaded is in its loop
    keys     |-> 0,           \* key presses read so far
    restarts |-> 0,           \* UiCommand::Restart sent so far
    paused   |-> FALSE,
    phase    |-> "IdleLatency",
    series   |-> [p \in Phases |-> {}],   \* *_lat_series and *_lat_points
    tp       |-> [p \in Phases |-> {}],   \* dl_series, ul_series and their points
    samples  |-> [p \in Phases |-> {}],   \* *_latency_samples
    counted  |-> [p \in Phases |-> {}],   \* the runs whose samples the counts include
    sent     |-> [p \in Phases |-> 0],
    received |-> [p \in Phases |-> 0] ]

\* No TUI thread: nothing receives the events.
NoUi == [FreshUi EXCEPT !.open = FALSE]

FreshHist ==
  [ restart_hits |-> 0,   \* Restart commands accepted while the run was held (capped)
    still_count  |-> 0 ]  \* "Still cancelling" messages since the deadline was last armed

Active(r) == eng[r].pc \notin {"none", "done"}

\* The record start_run uses for the run it spawns: the first one that holds no run.
FreeRuns(en) == {r \in Runs : en[r] = FreshRun}
NextRunId(en) == CHOOSE r \in FreeRuns(en) : \A q \in FreeRuns(en) : r <= q

\* control_rx is alive: owned by the engine future until the listener is spawned,
\* then by the listener until it exits or is aborted.
ReceiverAlive(e) ==
  \/ e.lpc = "wait"
  \/ e.lpc = "off" /\ e.pc \notin {"none", "done"}

\* A send that loses every message.
SendLost(e, msg) == e

\* ctx.ctrl_tx.send(msg): queued if the receiver is alive, an ignored error otherwise.
SendCtrl(e, msg) ==
  IF ReceiverAlive(e) THEN [e EXCEPT !.ctrl_q = Append(@, msg)] ELSE e

\* start_run: tokio::spawn(engine.run(event_tx, ctrl_rx)).
start_run(e) == [e EXCEPT !.pc = "meta"]

\* A task of the run is still alive: the engine task, its listener, a prober or a worker.
Live(e) ==
  \/ e.pc \notin {"none", "done"}
  \/ e.lpc = "wait"
  \/ e.ppc \in {"head", "pause", "probing"}
  \/ \E w \in DOMAIN e.wpc : e.wpc[w] # "done"

\* Everything a run owns is reference counted: once no task of it is alive the flags,
\* channels and counters are gone, and once its JoinHandle is consumed nothing is left.
Settle(e) ==
  IF Live(e) THEN e
  ELSE [FreshRun EXCEPT !.pc = IF e.result = "none" THEN "none" ELSE "done",
                        !.result = e.result,
                        !.fields = IF e.result = "ok" THEN e.fields ELSE {},
                        !.udp_ran = e.result = "ok" /\ e.udp_ran]

\* ------------------------------------------------------------------ Init
\* What the network does to the best-effort requests of a run: which of them succeed.
\*   meta       fetch_meta yields a non-empty object
\*   headers    fetch_meta_from_response succeeds
\*   locations  fetch_locations succeeds
\*   colo       the metadata names a colo that map_colo_to_server finds
\*   turn       fetch_turn succeeds
\*   udp        run_udp_like_loss_probe succeeds
NetUp == [meta |-> TRUE, headers |-> TRUE, locations |-> TRUE, colo |-> TRUE,
          turn |-> TRUE, udp |-> TRUE]
Nets == [meta : BOOLEAN, headers : BOOLEAN, locations : BOOLEAN, colo : BOOLEAN,
         turn : BOOLEAN, udp : BOOLEAN]

\* Outcomes of a worker's request: a success status, 429, another status, a transport error.
Statuses == {"200", "429", "500", "error"}

\* A RunConfig and the network it meets: the iterations that fit into the durations, the
\* outcomes probes (probe_ok) and worker requests (statuses) can have.
ZeroCfg == [idle_probes |-> 0, probes |-> 0, ticks |-> 0, concurrency |-> 0,
            experimental |-> FALSE, download_bytes_per_req |-> DefaultDownloadBytes,
            net |-> NetUp, probe_ok |-> {TRUE}, statuses |-> {"200", "error"}]

\* run_controller up to its select loop; the durations of every run are zero.
Init ==
  /\ test_on_launch \in BOOLEAN
  /\ cfg = ZeroCfg
  /\ cpc = "loop"
  /\ run_ctx = IF test_on_launch THEN 1 ELSE NoRun
  /\ restart_pending = FALSE
  /\ quit_pending = FALSE
  /\ cancel_deadline = NoDeadline
  /\ cmd_q = <<>>
  /\ cmd_open = TRUE
  /\ eng = [r \in Runs |-> IF test_on_launch /\ r = 1 THEN start_run(FreshRun) ELSE FreshRun]
  /\ obs = [r \in Runs |-> FreshObs]
  /\ hist = FreshHist
  /\ emitted = "none"
  /\ calc = NoCall
  /\ ui = NoUi

\* ----------------------------------------------------------- environment
\* A presentation layer sends a command.
EnvSend(c) ==
  /\ cmd_open
  /\ Len(cmd_q) < MaxCmdQueue
  /\ cmd_q' = Append(cmd_q, c)
  /\ UNCHANGED <<cfgVars, ctlVars, cmd_open, eng, obs, hist, emitted>>

\* Every sender of the command channel is dropped.
EnvClose ==
  /\ cmd_open
  /\ cmd_open' = FALSE
  /\ UNCHANGED <<cfgVars, ctlVars, cmd_q, eng, obs, hist, emitted>>

\* The controller's clock advances by one step.
TimePasses ==
  /\ cancel_deadline > 0
  /\ cancel_deadline' = cancel_deadline - 1
  /\ UNCHANGED <<cfgVars, cpc, run_ctx, restart_pending, quit_pending,
                 envVars, eng, obs, hist, emitted>>

\* ------------------------------------------------------------ controller
\* The control queue of the run held has room for one more message (model bound).
CtrlRoom ==
  run_ctx # NoRun /\ ReceiverAlive(eng[run_ctx]) => Len(eng[run_ctx].ctrl_q) < MaxCtrlQueue

\* The run start_run spawns takes the first free record, with an empty event stream.
StartIn(en) == [en EXCEPT ![NextRunId(en)] = start_run(@)]
LastGen == CHOOSE g \in {obs[r].gen : r \in Runs} : \A r \in Runs : obs[r].gen <= g
StartObs(en) ==
  [obs EXCEPT ![NextRunId(en)] =
     [FreshObs EXCEPT !.chan = obs[NextRunId(en)].chan,
                      !.gen = IF ui.open THEN LastGen + 1 ELSE 0]]

\* ctx.ctrl_tx.send(EngineControl::Cancel) to the run held.
CancelSkipped(e) == e
CancelRun(e) == SendCtrl(e, "Cancel")

\* cancel_deadline = Some(Instant::now() + Duration::from_secs(3)).
ArmNothing == NoDeadline
ArmDeadline == DeadlineSteps

\* cmd = Some(UiCommand::Pause(p)): forwarded to the run held, if any.
RecvPause(p) ==
  /\ cpc = "loop"
  /\ cmd_q # <<>>
  /\ Head(cmd_q) = (IF p THEN "PauseTrue" ELSE "PauseFalse")
  /\ CtrlRoom
  /\ cmd_q' = Tail(cmd_q)
  /\ eng' = IF run_ctx # NoRun
            THEN [eng EXCEPT ![run_ctx] = SendCtrl(@, Head(cmd_q))]
            ELSE eng
  /\ emitted' = "none"
  /\ UNCHANGED <<cfgVars, ctlVars, cmd_open, obs, hist>>

\* The Restart arm's test `if let Some(ctx) = &run_ctx`.
RestartEager == FALSE
RestartWaits == run_ctx # NoRun

\* cmd = Some(UiCommand::Restart): cancel the run held and wait, or start at once when Idle.
RecvRestart ==
  /\ cpc = "loop"
  /\ cmd_q # <<>>
  /\ Head(cmd_q) = "Restart"
  /\ CtrlRoom
  /\ cmd_q' = Tail(cmd_q)
  /\ IF RestartWaits
     THEN /\ restart_pending' = TRUE
          /\ eng' = [eng EXCEPT ![run_ctx] = CancelRun(@)]
          /\ emitted' = "Cancelling"
          /\ cancel_deadline' = ArmDeadline
          /\ hist' = [hist EXCEPT !.restart_hits = Min(@ + 1, HitsCap), !.still_count = 0]
          /\ UNCHANGED <<run_ctx, obs>>
     ELSE /\ FreeRuns(eng) # {}
          /\ run_ctx' = NextRunId(eng)
          /\ eng' = StartIn(eng)
          /\ obs' = StartObs(eng)
          /\ restart_pending' = FALSE
          /\ emitted' = "Restarting"
          /\ UNCHANGED <<cancel_deadline, hist>>
  /\ UNCHANGED <<cfgVars, cpc, quit_pending, cmd_open>>

\* cmd = Some(UiCommand::Quit): cancel the run held and wait for it, or return when Idle.
RecvQuit ==
  /\ cpc = "loop"
  /\ cmd_q # <<>>
  /\ Head(cmd_q) = "Quit"
  /\ CtrlRoom
  /\ cmd_q' = Tail(cmd_q)
  /\ quit_pending' = TRUE
  /\ IF run_ctx # NoRun
     THEN /\ eng' = [eng EXCEPT ![run_ctx] = CancelRun(@)]
          /\ emitted' = "Cancelling"
          /\ cancel_deadline' = ArmDeadline
          /\ hist' = [hist EXCEPT !.still_count = 0]
          /\ UNCHANGED cpc
     ELSE /\ cpc' = "done"
          /\ emitted' = "none"
          /\ UNCHANGED <<eng, cancel_deadline, hist>>
  /\ UNCHANGED <<cfgVars, run_ctx, restart_pending, cmd_open, obs>>

\* cmd = None: the command channel is closed and empty.
RecvClosed ==
  /\ cpc = "loop"
  /\ cmd_q = <<>>
  /\ ~cmd_open
  /\ CtrlRoom
  /\ quit_pending' = TRUE
  /\ emitted' = "none"
  /\ IF run_ctx # NoRun
     THEN /\ eng' = [eng EXCEPT ![run_ctx] = CancelRun(@)]
          /\ UNCHANGED cpc
     ELSE /\ cpc' = "done"
          /\ UNCHANGED eng
  /\ UNCHANGED <<cfgVars, run_ctx, restart_pending, cancel_deadline, envVars, obs, hist>>

\* The terminal event the controller emits for what the JoinHandle yielded.
AlwaysCompleted(result) == "RunCompleted"
TerminalEvent(result) ==
  CASE result = "ok"    -> "RunCompleted"
    [] result = "err"   -> "RunFailed"
    [] result = "panic" -> "RunJoinFailed"

\* The JoinHandle was awaited and taken, the RunCtx is dropped.
DropCtx(e) == Settle([e EXCEPT !.result = "none", !.fields = {}, !.udp_ran = FALSE])

\* `if quit_pending` after a completion.
QuitIgnored == FALSE
QuitDue == quit_pending

\* `if restart_pending` after a completion.
RestartDropped == FALSE
RestartDue == restart_pending

\* restart_pending after start_run in the completion branch.
LatchKept == TRUE
LatchCleared == FALSE

\* maybe_done: the JoinHandle of the run held resolves.
RunDone ==
  /\ cpc = "loop"
  /\ run_ctx # NoRun
  /\ eng[run_ctx].pc = "done"
  /\ emitted' = TerminalEvent(eng[run_ctx].result)
  /\ cancel_deadline' = NoDeadline
  /\ hist' = FreshHist
  /\ LET dropped == [eng EXCEPT ![run_ctx] = DropCtx(@)] IN
     IF QuitDue
     THEN /\ cpc' = "done"
          /\ run_ctx' = NoRun
          /\ eng' = dropped
          /\ UNCHANGED <<restart_pending, obs>>
     ELSE IF RestartDue
     THEN /\ FreeRuns(dropped) # {}
          /\ run_ctx' = NextRunId(dropped)
          /\ eng' = StartIn(dropped)
          /\ obs' = StartObs(dropped)
          /\ restart_pending' = LatchCleared
          /\ UNCHANGED cpc
     ELSE /\ run_ctx' = NoRun
          /\ eng' = dropped
          /\ UNCHANGED <<cpc, restart_pending, obs>>
  /\ UNCHANGED <<cfgVars, quit_pending, envVars>>

\* The watchdog's test: a deadline is armed, now >= deadline, and a run is held.
StillAnyTime == cancel_deadline # NoDeadline /\ run_ctx # NoRun
StillDue == cancel_deadline # NoDeadline /\ cancel_deadline = 0 /\ run_ctx # NoRun

\* watchdog.tick(): report a cancel that is taking longer than the deadline, once.
WatchdogTick ==
  /\ cpc = "loop"
  /\ IF StillDue
     THEN /\ emitted' = "StillCancelling"
          /\ hist' = [hist EXCEPT !.still_count = @ + 1]
          /\ cancel_deadline' = NoDeadline
     ELSE /\ emitted' = "none"
          /\ UNCHANGED <<hist, cancel_deadline>>
  /\ UNCHANGED <<cfgVars, cpc, run_ctx, restart_pending, quit_pending, envVars, eng, obs>>

\* ---------------------------------------------------------------- engine
\* The place of the next event in the event channel: behind every event in it.
Stamp ==
  LET used == UNION {{o.chan[i].at : i \in DOMAIN o.chan} : o \in {obs[r] : r \in Runs}} IN
  IF used = {} THEN 1 ELSE 1 + CHOOSE m \in used : \A n \in used : n <= m

\* event_tx.send(ev) on the unbounded channel to the TUI: an ignored error when the
\* receiver is gone.
EventSend(o, kind, p) ==
  IF ui.open
  THEN [o EXCEPT !.chan = Append(@, [kind |-> kind, phase |-> p, ok |-> TRUE,
                                      gen |-> o.gen, at |-> Stamp])]
  ELSE o

\* event_tx.send(TestEvent::PhaseStarted { phase }).
EmitPhaseStarted(o, p) ==
  [EventSend(o, "PhaseStarted", p) EXCEPT !.phase_started = Append(@, p)]

\* event_tx.send of a LatencySample or ThroughputTick tagged with a phase.
EmitSampleIdleTag(o, kind, p) ==
  [o EXCEPT !.samples = @ \cup {<<kind, "IdleLatency", Len(o.phase_started)>>}]
EmitSample(o, kind, p) ==
  [EventSend(o, kind, p) EXCEPT !.samples = @ \cup {<<kind, p, Len(o.phase_started)>>}]

\* event_tx.send(TestEvent::LatencySample { phase, rtt_ms, ok }): rtt_ms is Some iff ok.
EmitLatencySample(o, p, ok) ==
  [EmitSample(o, "LatencySample", p) EXCEPT
     !.lat_emitted = @ + 1, !.lat_ok = @ + (IF ok THEN 1 ELSE 0),
     !.chan = [i \in DOMAIN @ |-> IF i = Len(@) /\ i > Len(o.chan)
                                   THEN [@[i] EXCEPT !.ok = ok] ELSE @[i]]]

engFrame == <<cfgVars, ctlVars, envVars, hist, emitted>>

\* The engine future ends: its JoinHandle yields res and its locals are dropped.
TaskEnd(e, res) ==
  Settle([e EXCEPT !.pc = "done", !.result = res, !.lat_res = FALSE, !.nticks = 0,
                   !.lat_msg = LatencySummaryDefault,
                   !.fields = IF res = "ok" THEN @ ELSE {},
                   !.udp_ran = res = "ok" /\ @,
                   !.ctrl_q = IF e.lpc = "off" THEN <<>> ELSE @])

\* run_latency_probes starts: counters at zero, start = Instant::now().
StartProber(e, ph) ==
  [e EXCEPT !.ppc = "head", !.pphase = ph, !.sent = 0, !.received = 0]

\* run_download_with_loaded_latency / run_upload_with_loaded_latency up to the sampling
\* loop: fresh stop flag, the workers and the loaded-latency task are spawned.
StartThroughput(e, ph) ==
  [StartProber(e, ph) EXCEPT
     !.pc = "s_head", !.phase = ph, !.stop = FALSE,
     !.wpc = [w \in 1..cfg.concurrency |-> "check"],
     !.bytes_per_req = IF ph = "Download"
                       THEN [w \in 1..cfg.concurrency |-> cfg.download_bytes_per_req]
                       ELSE <<>>,
     !.lat_res = FALSE, !.lat_msg = LatencySummaryDefault, !.nticks = 0]

\* CloudflareClient::new fails: run returns the error before anything is spawned.
ClientFail(r) ==
  /\ eng[r].pc = "meta"
  /\ eng' = [eng EXCEPT ![r] = TaskEnd(@, "err")]
  /\ UNCHANGED <<engFrame, obs>>

\* meta: fetch_meta, or fetch_meta_from_response if it fails or yields an empty object.
\* server: the colo of the metadata looked up in the locations, if both were fetched.
MetaFields(net) ==
  LET meta == net.meta \/ net.headers
      server == meta /\ net.colo /\ net.locations
  IN (IF meta THEN {"meta"} ELSE {}) \cup (IF server THEN {"server"} ELSE {})

\* Best-effort metadata and location fetches are over: the control listener is spawned,
\* PhaseStarted(IdleLatency) is sent and the idle prober starts.
SpawnListener(r) ==
  /\ eng[r].pc = "meta"
  /\ eng' = [eng EXCEPT ![r] = [StartProber(@, "IdleLatency") EXCEPT
                                  !.pc = "idle", !.lpc = "wait",
                                  !.fields = MetaFields(cfg.net)]]
  /\ obs' = [obs EXCEPT ![r] = EmitPhaseStarted(@, "IdleLatency")]
  /\ UNCHANGED engFrame

\* The listener's match on a message: Pause(p) stores p, Cancel stores true and breaks,
\* which drops control_rx.
ListenerGoesOn(e, msg) ==
  CASE msg = "PauseTrue"  -> [e EXCEPT !.paused = TRUE, !.ctrl_q = Tail(@)]
    [] msg = "PauseFalse" -> [e EXCEPT !.paused = FALSE, !.ctrl_q = Tail(@)]
    [] msg = "Cancel"     -> [e EXCEPT !.cancel = TRUE, !.ctrl_q = Tail(@)]
PauseSticks(e, msg) ==
  CASE msg \in {"PauseTrue", "PauseFalse"} -> [e EXCEPT !.paused = TRUE, !.ctrl_q = Tail(@)]
    [] msg = "Cancel" -> [e EXCEPT !.cancel = TRUE, !.lpc = "exit", !.ctrl_q = <<>>]
ListenerStore(e, msg) ==
  CASE msg = "PauseTrue"  -> [e EXCEPT !.paused = TRUE, !.ctrl_q = Tail(@)]
    [] msg = "PauseFalse" -> [e EXCEPT !.paused = FALSE, !.ctrl_q = Tail(@)]
    [] msg = "Cancel"     -> [e EXCEPT !.cancel = TRUE, !.lpc = "exit", !.ctrl_q = <<>>]

\* Control listener: control_rx.recv() yields a message.
ListenerRecv(r) ==
  /\ eng[r].lpc = "wait"
  /\ eng[r].ctrl_q # <<>>
  /\ eng' = [eng EXCEPT ![r] = Settle(ListenerStore(@, Head(eng[r].ctrl_q)))]
  /\ UNCHANGED <<engFrame, obs>>

\* The controller still holds the RunCtx of run r, and with it the sender ctrl_tx.
SenderAlive(r) == cpc = "loop" /\ run_ctx = r

\* Control listener: control_rx.recv() yields None, every sender is dropped.
ListenerClosed(r) ==
  /\ eng[r].lpc = "wait"
  /\ eng[r].ctrl_q = <<>>
  /\ ~SenderAlive(r)
  /\ eng' = [eng EXCEPT ![r] = Settle([@ EXCEPT !.lpc = "exit"])]
  /\ UNCHANGED <<engFrame, obs>>

\* Pause gate of the prober: paused and not cancelled.
HeldThoughCancelled(e) == e.paused
Held(e) == e.paused /\ ~e.cancel

\* Number of probes that fit into the duration of the prober's phase.
ProbeBudget(e) == IF e.pphase = "IdleLatency" THEN cfg.idle_probes ELSE cfg.probes

\* run_latency_probes returns its summary. The idle prober is awaited by run, which goes
\* on to the download phase; the loaded prober's task sends the summary on lat_tx and ends.
ProberReturn(e) ==
  IF e.pc = "idle" THEN StartThroughput(e, "Download")
  ELSE LET open == e.pc \in {"s_head", "s_pause", "join", "lat_wait"} IN
       Settle([e EXCEPT !.ppc = "done", !.sent = 0, !.received = 0,
                        !.lat_res = open,
                        !.lat_msg = IF open
                                    THEN latency_summary_from_samples(e.sent, e.received)
                                    ELSE @])

\* PhaseStarted(Download) follows the return of the idle prober.
ProberReturnObs(o, e) ==
  LET over == [o EXCEPT !.lat_emitted = 0, !.lat_ok = 0] IN
  IF e.pc = "idle" THEN EmitPhaseStarted(over, "Download") ELSE over

\* Past the pause gate: break on cancel, otherwise sent += 1 and the probe is issued.
ProbeThoughCancelled(e) == [e EXCEPT !.ppc = "probing", !.sent = @ + 1]
ProbeOrBreak(e) ==
  IF e.cancel THEN ProberReturn(e)
  ELSE [e EXCEPT !.ppc = "probing", !.sent = @ + 1]

ProbeOrBreakObs(o, e) == IF e.cancel THEN ProberReturnObs(o, e) ELSE o

\* Prober loop head: start.elapsed() >= total_duration ends the loop.
ProberTimeUp(r) ==
  /\ eng[r].ppc = "head"
  /\ eng[r].sent >= Min(1, ProbeBudget(eng[r]))
  /\ eng' = [eng EXCEPT ![r] = ProberReturn(@)]
  /\ obs' = [obs EXCEPT ![r] = ProberReturnObs(@, eng[r])]
  /\ UNCHANGED engFrame

\* Prober loop head: start.elapsed() < total_duration, then the pause gate.
ProberHead(r) ==
  /\ eng[r].ppc = "head"
  /\ eng[r].sent < ProbeBudget(eng[r])
  /\ IF Held(eng[r])
     THEN /\ eng' = [eng EXCEPT ![r].ppc = "pause"]
          /\ UNCHANGED obs
     ELSE /\ eng' = [eng EXCEPT ![r] = ProbeOrBreak(@)]
          /\ obs' = [obs EXCEPT ![r] = ProbeOrBreakObs(@, eng[r])]
  /\ UNCHANGED engFrame

\* Prober wakes from a 50 ms pause sleep and finds the gate open.
ProberResume(r) ==
  /\ eng[r].ppc = "pause"
  /\ ~Held(eng[r])
  /\ eng' = [eng EXCEPT ![r] = ProbeOrBreak(@)]
  /\ obs' = [obs EXCEPT ![r] = ProbeOrBreakObs(@, eng[r])]
  /\ UNCHANGED engFrame

\* received after a probe that succeeded (ok) or failed.
ReceivedStuck(n, ok) == n
Received(n, ok) == IF ok THEN n + 1 ELSE n

\* client.probe_latency_ms resolves: one LatencySample, then the interval sleep.
ProbeDone(r) ==
  /\ eng[r].ppc = "probing"
  /\ \E ok \in cfg.probe_ok :
       /\ eng' = [eng EXCEPT ![r].ppc = "head", ![r].received = Received(@, ok)]
       /\ obs' = [obs EXCEPT ![r] = EmitLatencySample(@, eng[r].pphase, ok)]
  /\ UNCHANGED engFrame

\* wait_if_paused_or_cancelled keeps polling: the run is paused and not cancelled.
wait_blocked(e) == e.paused /\ ~e.cancel

\* What wait_if_paused_or_cancelled returns once it stops polling: the cancelled flag.
wait_if_paused_or_cancelled(e) == e.cancel

\* After the sampling loop: stop.store(true), then the workers are joined.
StopWorkers(e) == [e EXCEPT !.stop = TRUE, !.pc = "join", !.nticks = 0]

\* A sampler that ticks whatever wait_if_paused_or_cancelled returned.
TickThoughCancelled(e) == [e EXCEPT !.pc = "s_head", !.nticks = @ + 1]

\* wait_if_paused_or_cancelled returned: break on cancel, otherwise one ThroughputTick
\* and the 200 ms sleep.
TickOrBreak(e) ==
  IF wait_if_paused_or_cancelled(e) THEN StopWorkers(e)
  ELSE [e EXCEPT !.pc = "s_head", !.nticks = @ + 1]

TickOrBreakObs(o, e) ==
  IF wait_if_paused_or_cancelled(e) THEN o ELSE EmitSample(o, "ThroughputTick", e.phase)

\* Sampler loop head: start.elapsed() >= duration ends the loop.
SamplerTimeUp(r) ==
  /\ eng[r].pc = "s_head"
  /\ eng[r].nticks >= Min(1, cfg.ticks)
  /\ eng' = [eng EXCEPT ![r] = StopWorkers(@)]
  /\ UNCHANGED <<engFrame, obs>>

\* Sampler loop head: start.elapsed() < duration, then wait_if_paused_or_cancelled.
SamplerHead(r) ==
  /\ eng[r].pc = "s_head"
  /\ eng[r].nticks < cfg.ticks
  /\ IF wait_blocked(eng[r])
     THEN /\ eng' = [eng EXCEPT ![r].pc = "s_pause"]
          /\ UNCHANGED obs
     ELSE /\ eng' = [eng EXCEPT ![r] = TickOrBreak(@)]
          /\ obs' = [obs EXCEPT ![r] = TickOrBreakObs(@, eng[r])]
  /\ UNCHANGED engFrame

\* The sampler wakes inside wait_if_paused_or_cancelled and finds the gate open.
SamplerResume(r) ==
  /\ eng[r].pc = "s_pause"
  /\ ~wait_blocked(eng[r])
  /\ eng' = [eng EXCEPT ![r] = TickOrBreak(@)]
  /\ obs' = [obs EXCEPT ![r] = TickOrBreakObs(@, eng[r])]
  /\ UNCHANGED engFrame

\* A worker loop that never reads the stop flag.
WorkerNeverStops(r, w) ==
  /\ w \in DOMAIN eng[r].wpc
  /\ eng[r].wpc[w] = "check"
  /\ eng' = [eng EXCEPT ![r].wpc[w] = "req"]
  /\ UNCHANGED <<engFrame, obs>>

\* Worker loop head: while !stop2.load(), then the next GET or POST is issued.
WorkerCheck(r, w) ==
  /\ w \in DOMAIN eng[r].wpc
  /\ eng[r].wpc[w] = "check"
  /\ eng' = [eng EXCEPT ![r] =
       IF eng[r].stop
       THEN Settle([@ EXCEPT !.wpc[w] = "done",
                             !.bytes_per_req = IF w \in DOMAIN @ THEN [@ EXCEPT ![w] = 0] ELSE @])
       ELSE [@ EXCEPT !.wpc[w] = "req"]]
  /\ UNCHANGED <<engFrame, obs>>

\* A download worker's bytes_per_req after a response: halved on 429, not below the floor.
HalveAlways(b, st) == Max(b \div 2, MIN_DOWNLOAD_BYTES_PER_REQ)
next_bytes_per_req(b, st) ==
  LET next == Max(b \div 2, MIN_DOWNLOAD_BYTES_PER_REQ) IN
  IF st = "429" /\ next < b THEN next ELSE b

\* A worker that reports every 429.
ReportEvery429(o, b, st) == IF st = "429" THEN [o EXCEPT !.reduced = @ + 1] ELSE o

\* ev_dl.send(Info "Download: 429 from server, reducing bytes per request to {}"), inside
\* `if next < bytes_per_req`.
EmitReducing(o, b, st) ==
  IF next_bytes_per_req(b, st) < b THEN [o EXCEPT !.reduced = @ + 1] ELSE o

\* The request of a worker resolves (body streamed, error, or non-success status).
WorkerResp(r, w) ==
  /\ w \in DOMAIN eng[r].wpc
  /\ eng[r].wpc[w] = "req"
  /\ \E st \in cfg.statuses :
       /\ eng' = [eng EXCEPT ![r].wpc[w] = "check",
                             ![r].bytes_per_req =
                                IF w \in DOMAIN @
                                THEN [@ EXCEPT ![w] = next_bytes_per_req(@, st)] ELSE @]
       /\ obs' = IF w \in DOMAIN eng[r].bytes_per_req
                 THEN [obs EXCEPT ![r] = EmitReducing(@, eng[r].bytes_per_req[w], st)]
                 ELSE obs
  /\ UNCHANGED engFrame

\* `for h in handles { let _ = h.await; }` is through: every worker has finished.
NoneAwaited(e) == TRUE
AllJoined(e) == \A w \in DOMAIN e.wpc : e.wpc[w] = "done"

\* for h in handles { h.await }: every worker has finished; the summary is computed.
JoinWorkers(r) ==
  /\ eng[r].pc = "join"
  /\ AllJoined(eng[r])
  /\ eng' = [eng EXCEPT ![r].pc = "lat_wait"]
  /\ UNCHANGED <<engFrame, obs>>

\* lat_rx.recv() yields the summary and lat_handle is joined: the phase returns Ok.
\* After download: PhaseStarted(Upload) and the upload phase; after upload: the tail.
LatRecv(r) ==
  /\ eng[r].pc = "lat_wait"
  /\ eng[r].lat_res
  /\ eng[r].ppc = "done"
  /\ IF eng[r].phase = "Download"
     THEN /\ eng' = [eng EXCEPT ![r] = StartThroughput(@, "Upload")]
          /\ obs' = [obs EXCEPT ![r] = EmitPhaseStarted(@, "Upload")]
     ELSE /\ eng' = [eng EXCEPT ![r].pc = "tail", ![r].lat_res = FALSE,
                                    ![r].lat_msg = LatencySummaryDefault]
          /\ UNCHANGED obs
  /\ UNCHANGED engFrame

\* The loaded-latency task panics while a probe is in flight: lat_tx is dropped without a
\* summary having been sent.
ProberPanic(r) ==
  /\ eng[r].ppc = "probing"
  /\ eng[r].pc \in {"s_head", "s_pause", "join", "lat_wait"}
  /\ eng' = [eng EXCEPT ![r].ppc = "dead", ![r].sent = 0, ![r].received = 0]
  /\ obs' = [obs EXCEPT ![r].lat_emitted = 0, ![r].lat_ok = 0]
  /\ UNCHANGED engFrame

\* What the phase does when no summary can come: `.context(..)?` returns the error.
LatErrorIgnored(e) ==
  [e EXCEPT !.pc = "tail", !.lat_res = FALSE, !.lat_msg = LatencySummaryDefault]
LatError(e) == TaskEnd(e, "err")

\* The 30 s timeout around lat_rx.recv() fires: the prober is still held by a pause.
\* The phase, and with it the run, returns the error.
LatTimeout(r) ==
  /\ eng[r].pc = "lat_wait"
  /\ ~eng[r].lat_res
  /\ eng[r].ppc = "pause"
  /\ Held(eng[r])
  /\ eng' = [eng EXCEPT ![r] = LatError(@)]
  /\ UNCHANGED <<engFrame, obs>>

\* lat_rx.recv() yields None: the loaded-latency task ended without sending. The phase,
\* and with it the run, returns the error.
LatClosed(r) ==
  /\ eng[r].pc = "lat_wait"
  /\ ~eng[r].lat_res
  /\ eng[r].ppc = "dead"
  /\ eng' = [eng EXCEPT ![r] = LatError(@)]
  /\ UNCHANGED <<engFrame, obs>>

\* The experimental tail: fetch_turn if cfg.experimental, and run_udp_like_loss_probe if
\* it succeeded. Neither failure is propagated.
UdpProbeAlways(c) == TRUE
UdpProbeRuns(c) == c.experimental /\ c.net.turn

TurnFields(c) ==
  (IF c.experimental /\ c.net.turn THEN {"turn"} ELSE {})
    \cup (IF UdpProbeRuns(c) /\ c.net.udp THEN {"experimental_udp"} ELSE {})

\* After the upload phase: the experimental tail, control_handle.abort() and Ok(RunResult).
EngineTail(r) ==
  /\ eng[r].pc = "tail"
  /\ eng' = [eng EXCEPT ![r] =
       TaskEnd([@ EXCEPT !.lpc = IF @ = "wait" THEN "exit" ELSE @, !.ctrl_q = <<>>,
                         !.fields = @ \cup TurnFields(cfg),
                         !.udp_ran = UdpProbeRuns(cfg)], "ok")]
  /\ UNCHANGED <<engFrame, obs>>

\* The engine task panics, taken at its first suspension point: the JoinHandle yields a
\* JoinError.
EnginePanic(r) ==
  /\ eng[r].pc = "meta"
  /\ eng' = [eng EXCEPT ![r] = TaskEnd(@, "panic")]
  /\ UNCHANGED <<engFrame, obs>>

\* ------------------------------------------------------------------ Next
Controller ==
  \/ \E p \in BOOLEAN : RecvPause(p)
  \/ RecvRestart
  \/ RecvQuit
  \/ RecvClosed
  \/ RunDone
  \/ WatchdogTick

Environment == (\E c \in UiCommand : EnvSend(c)) \/ EnvClose \/ TimePasses

\* The steps of a run whose durations are zero and that has no workers.
EngineZero(r) ==
  \/ ClientFail(r) \/ SpawnListener(r) \/ ListenerRecv(r)
  \/ ProberTimeUp(r) \/ SamplerTimeUp(r) \/ JoinWorkers(r) \/ LatRecv(r)
  \/ EngineTail(r) \/ EnginePanic(r)

Next == Controller \/ Environment \/ (\E r \in Runs : EngineZero(r))

Spec == Init /\ [][Next]_vars

\* ---------------------------------------------------------------- EngSpec
\* One run with non-zero durations, started at launch; its holder sends it control
\* messages of its own choice and takes its result when it is done.
FullCfg == [ZeroCfg EXCEPT !.idle_probes = MaxProbes, !.probes = MaxProbes,
                           !.ticks = MaxTicks, !.concurrency = MaxWorkers]

OneRun(c) ==
  /\ test_on_launch = TRUE
  /\ cfg = c
  /\ cpc = "loop"
  /\ run_ctx = 1
  /\ restart_pending = FALSE
  /\ quit_pending = FALSE
  /\ cancel_deadline = NoDeadline
  /\ cmd_q = <<>>
  /\ cmd_open = TRUE
  /\ eng = [r \in Runs |-> IF r = 1 THEN start_run(FreshRun) ELSE FreshRun]
  /\ obs = [r \in Runs |-> FreshObs]
  /\ hist = FreshHist
  /\ emitted = "none"
  /\ calc = NoCall
  /\ ui = NoUi

EngInit == OneRun(FullCfg)

\* ctx.ctrl_tx.send(msg) by the holder of the run.
EngSend(msg) ==
  /\ run_ctx # NoRun
  /\ ReceiverAlive(eng[run_ctx])
  /\ Len(eng[run_ctx].ctrl_q) < MaxCtrlQueue
  /\ eng' = [eng EXCEPT ![run_ctx] = SendCtrl(@, msg)]
  /\ UNCHANGED <<engFrame, obs>>

MainTask(r) ==
  \/ SpawnListener(r) \/ SamplerHead(r) \/ SamplerResume(r) \/ SamplerTimeUp(r)
  \/ JoinWorkers(r) \/ LatRecv(r) \/ LatClosed(r) \/ EngineTail(r)

MainFails(r) == ClientFail(r) \/ EnginePanic(r) \/ LatTimeout(r) \/ ProberPanic(r)

Listener(r) == ListenerRecv(r) \/ ListenerClosed(r)

Prober(r) == ProberHead(r) \/ ProberResume(r) \/ ProbeDone(r) \/ ProberTimeUp(r)

Worker(r, w) == WorkerCheck(r, w) \/ WorkerResp(r, w)

Engine(r) ==
  \/ MainTask(r) \/ MainFails(r) \/ Listener(r) \/ Prober(r)
  \/ \E w \in 1..MaxWorkers : Worker(r, w)

EngNext == (\E msg \in EngineControl : EngSend(msg)) \/ RunDone \/ (\E r \in Runs : Engine(r))

EngSpec == EngInit /\ [][EngNext]_vars

\* ---------------------------------------------------------------- NetSpec
\* One run against a network that fails: probes that get no answer and a server that
\* never answers 429, or a server that answers a single download worker with any status,
\* for several sizes of the first request.
LossyCfg == [FullCfg EXCEPT !.probe_ok = BOOLEAN, !.statuses = Statuses \ {"429"}]

StartBytes == {DefaultDownloadBytes, 250001, MIN_DOWNLOAD_BYTES_PER_REQ + 1,
               MIN_DOWNLOAD_BYTES_PER_REQ, 50000}

ThrottledCfg(b) ==
  [ZeroCfg EXCEPT !.statuses = Statuses, !.download_bytes_per_req = b, !.concurrency = 1]

NetInit == \E c \in {LossyCfg} \cup {ThrottledCfg(b) : b \in StartBytes} : OneRun(c)

NetSpec == NetInit /\ [][EngNext]_vars

\* ------------------------------------------------------------ BackoffSpec
\* One run whose download workers, MaxWorkers of them, are answered with 200 or 429.
BackoffCfg(b) ==
  [ZeroCfg EXCEPT !.statuses = {"200", "429"}, !.download_bytes_per_req = b,
                  !.concurrency = MaxWorkers]

BackoffInit == \E b \in {250001, MIN_DOWNLOAD_BYTES_PER_REQ} : OneRun(BackoffCfg(b))

BackoffNext ==
  \/ \E msg \in EngineControl : EngSend(msg)
  \/ RunDone
  \/ \E r \in Runs : EngineZero(r) \/ (\E w \in 1..MaxWorkers : Worker(r, w))

BackoffSpec == BackoffInit /\ [][BackoffNext]_vars

\* ---------------------------------------------------------------- OptSpec
\* One run of zero durations, for every outcome of its best-effort requests, with and
\* without the experimental flag.
OptInit ==
  \E x \in BOOLEAN, n \in Nets : OneRun([ZeroCfg EXCEPT !.experimental = x, !.net = n])

OptNext ==
  (\E msg \in EngineControl : EngSend(msg)) \/ RunDone \/ (\E r \in Runs : EngineZero(r))

OptSpec == OptInit /\ [][OptNext]_vars

\* --------------------------------------------------------------- fairness
\* tokio polls every task that is ready: no engine task, listener, prober or worker is
\* starved, and requests and probes resolve (the client's timeouts). select! takes a
\* branch that is ready: the completion of the run held is observed. Failures and the
\* environment are not forced.
Progress ==
  /\ WF_vars(\E r \in Runs : MainTask(r))
  /\ WF_vars(\E r \in Runs : Listener(r))
  /\ WF_vars(\E r \in Runs : Prober(r))
  /\ \A w \in 1..MaxWorkers : WF_vars(\E r \in Runs : Worker(r, w))

EngLive == EngSpec /\ Progress

\* For the controller it is enough that some ready task of a run is polled.
LiveSpec == Spec /\ WF_vars(RunDone) /\ WF_vars(\E r \in Runs : MainTask(r) \/ Prober(r))

\* ------------------------------------------------------ pure functions
\* The controller and the engine at rest, while one of the pure functions is called.
AtRest ==
  /\ test_on_launch = FALSE
  /\ cfg = ZeroCfg
  /\ cpc = "done"
  /\ run_ctx = NoRun
  /\ restart_pending = FALSE
  /\ quit_pending = FALSE
  /\ cancel_deadline = NoDeadline
  /\ cmd_q = <<>>
  /\ cmd_open = FALSE
  /\ eng = [r \in Runs |-> FreshRun]
  /\ obs = [r \in Runs |-> FreshObs]
  /\ hist = FreshHist
  /\ emitted = "none"
  /\ ui = NoUi

restVars == <<test_on_launch, cfg, ctlVars, envVars, eng, obs, hist, emitted, ui>>

\* --------------------------------------------------------------- StunSpec
\* u8. Buffers and transaction ids are sequences of bytes; buf[i] of the code is buf[i+1].
Byte == 0..255

\* The magic cookie 0x2112A442 as bytes 4..7 of a STUN message.
MagicCookie == <<33, 18, 164, 66>>

\* A request whose transaction id bytes are left zero.
RequestWithoutId(txid) == <<0, 1, 0, 0>> \o MagicCookie \o [i \in 1..12 |-> 0]

\* build_stun_binding_request: type 0x0001, length 0, cookie, transaction id.
build_stun_binding_request(txid) == <<0, 1, 0, 0>> \o MagicCookie \o txid

\* A validator that does not compare the transaction id.
AnyTransaction(buf, txid) ==
  Len(buf) >= 20 /\ buf[1] = 1 /\ buf[2] = 1 /\ SubSeq(buf, 5, 8) = MagicCookie

\* is_stun_binding_response, check by check.
is_stun_binding_response(buf, txid) ==
  IF Len(buf) < 20 THEN FALSE
  ELSE IF buf[1] # 1 \/ buf[2] # 1 THEN FALSE
  ELSE IF buf[5] # 33 \/ buf[6] # 18 \/ buf[7] # 164 \/ buf[8] # 66 THEN FALSE
  ELSE SubSeq(buf, 9, 20) = txid

\* Transaction ids sent: 12 bytes each.
TxIds == { [i \in 1..12 |-> 7], [i \in 1..12 |-> IF i = 12 THEN 8 ELSE 7],
           [i \in 1..12 |-> 16 * i + 3] }

\* A binding success response to txid as a server builds it: the length field counts the
\* attribute bytes that follow the header.
StunSuccess(txid, attrs) == <<1, 1, 0, Len(attrs)>> \o MagicCookie \o txid \o attrs

\* Attribute bytes of a response.
Attrs == UNION { [1..n -> {0, 255}] : n \in 0..MaxAttrs }

\* Values a byte of a datagram is replaced with.
Garbled == {0, 1, 2, 7, 8, 17, 18, 33, 34, 66, 164, 255}

\* Datagrams read from the socket: responses to some transaction, whole, with one byte
\* replaced, or cut short; and requests echoed back.
Datagrams ==
  LET good == { StunSuccess(t, a) : t \in TxIds, a \in Attrs } IN
  good
    \cup { [b EXCEPT ![p] = v] : b \in { StunSuccess(t, <<>>) : t \in TxIds },
                                 p \in 1..20, v \in Garbled }
    \cup { SubSeq(b, 1, n) : b \in good, n \in {0, 1, 8, 19, 20} }
    \cup { build_stun_binding_request(t) : t \in TxIds }

\* A datagram to validate for a transaction id, or a request to build for one. sent_as is
\* the transaction id the buffer was built for by build_stun_binding_request, if it was.
StunInit ==
  /\ AtRest
  /\ calc \in [ fn : {"is_stun_binding_response"}, buf : Datagrams, txid : TxIds,
                sent_as : {<<>>}, done : {FALSE}, out : {FALSE} ]
           \cup [ fn : {"build_stun_binding_request"}, buf : {<<>>}, txid : TxIds,
                  sent_as : {<<>>}, done : {FALSE}, out : {FALSE} ]

\* build_stun_binding_request(txid) is called; what is then handed to the validator, for
\* the transaction id of some attempt, is the request as built or the request with its
\* type bytes set to 0x0101.
StunBuild ==
  /\ calc # NoCall
  /\ calc.fn = "build_stun_binding_request"
  /\ \E t \in TxIds, typed \in BOOLEAN :
       LET pkt == build_stun_binding_request(calc.txid) IN
       calc' = [ fn |-> "is_stun_binding_response",
                 buf |-> IF typed THEN [pkt EXCEPT ![1] = 1, ![2] = 1] ELSE pkt,
                 txid |-> t, sent_as |-> calc.txid, done |-> FALSE, out |-> FALSE ]
  /\ UNCHANGED restVars

\* `Ok(Ok(n)) if is_stun_binding_response(&buf[..n], txid)`: the guard is evaluated.
StunValidate ==
  /\ calc # NoCall
  /\ calc.fn = "is_stun_binding_response"
  /\ ~calc.done
  /\ calc' = [calc EXCEPT !.done = TRUE,
                          !.out = is_stun_binding_response(calc.buf, calc.txid)]
  /\ UNCHANGED restVars

StunNext == StunValidate \/ StunBuild

StunSpec == StunInit /\ [][StunNext]_vars

\* ---------------------------------------------------------------- UdpSpec
\* run_udp_like_loss_probe from its first send on. The loop makes MaxAttempts attempts
\* (50 in the code). A datagram in flight is the answer to the request of attempt seq.
UdpStart ==
  [ fn |-> "run_udp_like_loss_probe",
    pc |-> "send",                 \* send, recv, done
    seq |-> 0,                     \* loop variable of `for seq in 1..=attempts`
    txid |-> <<>>,                 \* transaction id of the request sent last
    sent |-> 0,
    received |-> 0,
    txid_to_seq |-> [t \in {} |-> 0],
    next_expected_seq |-> 1,
    out_of_order |-> 0,
    in_flight |-> {},              \* answers on their way to the socket
    read_max |-> 0,                \* highest attempt an answer was read for
    late |-> 0,                    \* answers read after the answer of a later attempt
    events |-> 0,                  \* UdpLossProgress events sent
    last |-> [sent |-> 0, received |-> 0, total |-> 0, rtt |-> FALSE] ]   \* the latest one

UdpInit == AtRest /\ calc = UdpStart

\* HashMap::insert.
MapInsert(m, k, v) == [x \in DOMAIN m \cup {k} |-> IF x = k THEN v ELSE m[x]]

\* The out-of-order check on a valid response of sequence number pkt_seq.
TrackOrder(c, pkt_seq) ==
  IF pkt_seq < c.next_expected_seq
  THEN [c EXCEPT !.out_of_order = @ + 1]
  ELSE [c EXCEPT !.next_expected_seq = pkt_seq + 1]

\* What comes back for the request of transaction t: a binding success response, the
\* request itself, or a response cut short.
Answers(t) ==
  { [ok |-> TRUE, buf |-> StunSuccess(t, <<>>)],
    [ok |-> FALSE, buf |-> build_stun_binding_request(t)],
    [ok |-> FALSE, buf |-> SubSeq(StunSuccess(t, <<>>), 1, 19)] }

\* An attempt that reports nothing.
NoProgress(c, rtt) == c

\* event_tx.send(TestEvent::UdpLossProgress { sent, received, total: attempts, rtt_ms }).
UdpLossProgress(c, rtt) ==
  [c EXCEPT !.events = @ + 1,
            !.last = [sent |-> c.sent, received |-> c.received, total |-> MaxAttempts,
                      rtt |-> rtt]]

\* Top of the loop: a fresh transaction id is drawn, recorded and sent. The server
\* answers or not.
UdpSend ==
  /\ calc # NoCall /\ calc.fn = "run_udp_like_loss_probe"
  /\ calc.pc = "send"
  /\ calc.seq < MaxAttempts
  /\ \E t \in TxIds :
       \E back \in {{}} \cup {{[seq |-> calc.seq + 1, ok |-> a.ok, buf |-> a.buf]} : a \in Answers(t)} :
         calc' = [calc EXCEPT
                    !.pc = "recv", !.seq = @ + 1, !.sent = @ + 1, !.txid = t,
                    !.txid_to_seq = MapInsert(@, t, calc.seq + 1),
                    !.in_flight = @ \cup back]
  /\ UNCHANGED restVars

\* sock.recv yields a datagram within the timeout; the match guard validates it against
\* the transaction id of this attempt. Then the interval sleep.
UdpRecv ==
  /\ calc # NoCall /\ calc.fn = "run_udp_like_loss_probe"
  /\ calc.pc = "recv"
  /\ \E d \in calc.in_flight :
       LET read == [calc EXCEPT
                      !.pc = "send", !.in_flight = @ \ {d},
                      !.read_max = IF d.ok THEN Max(@, d.seq) ELSE @,
                      !.late = IF d.ok /\ d.seq < calc.read_max THEN @ + 1 ELSE @] IN
       calc' = IF is_stun_binding_response(d.buf, calc.txid)
               THEN LET got == [read EXCEPT !.received = @ + 1] IN
                    UdpLossProgress(IF calc.txid \in DOMAIN calc.txid_to_seq
                                    THEN TrackOrder(got, calc.txid_to_seq[calc.txid])
                                    ELSE got, TRUE)
               ELSE UdpLossProgress(read, FALSE)
  /\ UNCHANGED restVars

\* The 600 ms timeout of the recv expires: loss. Then the interval sleep.
UdpTimeout ==
  /\ calc # NoCall /\ calc.fn = "run_udp_like_loss_probe"
  /\ calc.pc = "recv"
  /\ calc' = UdpLossProgress([calc EXCEPT !.pc = "send"], FALSE)
  /\ UNCHANGED restVars

\* The loop is through: the summary is built from the counters.
UdpFinish ==
  /\ calc # NoCall /\ calc.fn = "run_udp_like_loss_probe"
  /\ calc.pc = "send"
  /\ calc.seq = MaxAttempts
  /\ calc' = [calc EXCEPT !.pc = "done", !.in_flight = {}]
  /\ UNCHANGED restVars

UdpNext == UdpSend \/ UdpRecv \/ UdpTimeout \/ UdpFinish

UdpSpec == UdpInit /\ [][UdpNext]_vars

\* ------------------------------------------------------------- WindowSpec
\* The sampler's series and estimate_steady_window. Instants and Durations are in ms; a
\* sample is <<t, bytes>>.
None == [some |-> FALSE]
Some(v) == [some |-> TRUE, v |-> v]

\* Option::unwrap_or.
unwrap_or(opt, d) == IF opt.some THEN opt.v ELSE d

\* u64::saturating_sub, Instant::saturating_duration_since.
saturating_sub(a, b) == IF a > b THEN a - b ELSE 0

\* Index of the first sample taken at or after t0, counted from 1; 0 if there is none.
position(samples, t0) ==
  LET hits == {i \in 1..Len(samples) : samples[i][1] >= t0} IN
  IF hits = {} THEN 0 ELSE CHOOSE i \in hits : \A j \in hits : i <= j

\* total_duration.mul_f64(0.20).max(Duration::from_secs(1)).
ignore_of(total_duration) == Max((total_duration * 20) \div 100, 1000)

\* estimate_steady_window.
estimate_steady_window(samples, total_duration) ==
  IF Len(samples) < 2 THEN None
  ELSE LET ignore == ignore_of(total_duration)
           t0 == samples[1][1] + ignore
           p == position(samples, t0)
           start_idx == IF p = 0 THEN 1 ELSE p      \* .unwrap_or(0)
           t_start == samples[start_idx][1]
           b_start == samples[start_idx][2]
           t_end == samples[Len(samples)][1]
           b_end == samples[Len(samples)][2]
           dt == saturating_sub(t_end, t_start) IN
       IF dt < 200 THEN None
       ELSE Some(<<saturating_sub(b_end, b_start), dt>>)

\* Time between two ticks of the sampler, pauses included, and what start.elapsed()
\* exceeds the last tick by.
Gaps == {100, 200, 1000, 2000}

\* Bytes the workers add between two ticks.
Deltas == {0, 3}

WindowInit ==
  /\ AtRest
  /\ calc = [ fn |-> "estimate_steady_window", pc |-> "sampling", samples |-> <<>>,
              now |-> 0, total |-> 0, duration |-> 0, out |-> <<0, 0>>, steady |-> None ]

\* One iteration of the sampling loop: samples.push((Instant::now(), now_total)).
WindowPush ==
  /\ calc # NoCall /\ calc.fn = "estimate_steady_window"
  /\ calc.pc = "sampling"
  /\ Len(calc.samples) < MaxSamples
  /\ \E g \in Gaps, d \in Deltas :
       LET t == IF calc.samples = <<>> THEN 0 ELSE calc.now + g
           b == calc.total + d IN
       calc' = [calc EXCEPT !.samples = Append(@, <<t, b>>), !.now = t, !.total = b]
  /\ UNCHANGED restVars

\* After the loop and the join: duration = start.elapsed(), bytes_total = total.load(),
\* (bytes, window) = estimate_steady_window(&samples, duration).unwrap_or(..).
WindowEstimate ==
  /\ calc # NoCall /\ calc.fn = "estimate_steady_window"
  /\ calc.pc = "sampling"
  /\ \E g \in Gaps, d \in Deltas :
       LET duration == calc.now + g
           bytes_total == calc.total + d
           steady == estimate_steady_window(calc.samples, duration) IN
       calc' = [calc EXCEPT !.pc = "done", !.duration = duration, !.total = bytes_total,
                            !.steady = steady,
                            !.out = unwrap_or(steady, <<bytes_total, duration>>)]
  /\ UNCHANGED restVars

WindowNext == WindowPush \/ WindowEstimate

WindowSpec == WindowInit /\ [][WindowNext]_vars

\* ------------------------------------------------------------ MetricsSpec
\* compute_latency_metrics of metrics.rs, which its callers name compute_metrics. Samples
\* are whole numbers; the mean is kept exact as <<sum, count>>.
RECURSIVE Sum(_)
Sum(s) == IF s = <<>> THEN 0 ELSE Head(s) + Sum(Tail(s))

\* sorted.sort_by(|a, b| a.partial_cmp(b).unwrap()) on numbers.
sort_by(s) == SortSeq(s, LAMBDA a, b : a < b)

\* Percentiles at the lower middle ranks: (n-1)/2, (n-1)/4, 3(n-1)/4.
LowerRanks(samples) ==
  IF Len(samples) < 2 THEN None
  ELSE LET sorted == sort_by(samples)
           n == Len(sorted) IN
       Some([ mean |-> <<Sum(samples), Len(samples)>>,
              median |-> sorted[(n - 1) \div 2 + 1],
              p25 |-> sorted[(n - 1) \div 4 + 1],
              p75 |-> sorted[(3 * (n - 1)) \div 4 + 1] ])

\* compute_latency_metrics; sorted[i] of the code is sorted[i + 1].
compute_latency_metrics(samples) ==
  IF Len(samples) < 2 THEN None
  ELSE LET sorted == sort_by(samples)
           n == Len(sorted) IN
       Some([ mean |-> <<Sum(samples), Len(samples)>>,
              median |-> sorted[n \div 2 + 1],
              p25 |-> sorted[n \div 4 + 1],
              p75 |-> sorted[(3 * n) \div 4 + 1] ])

\* Values of a sample.
SampleValues == 1..4

MetricsInit ==
  /\ AtRest
  /\ \E n \in 0..MaxSamples :
       calc \in [ fn : {"compute_metrics"}, samples : [1..n -> SampleValues],
                  done : {FALSE}, out : {None} ]

\* compute_metrics(samples) is called.
MetricsCall ==
  /\ calc # NoCall /\ calc.fn = "compute_metrics"
  /\ ~calc.done
  /\ calc' = [calc EXCEPT !.done = TRUE, !.out = compute_latency_metrics(calc.samples)]
  /\ UNCHANGED restVars

MetricsNext == MetricsCall

MetricsSpec == MetricsInit /\ [][MetricsNext]_vars

\* ---------------------------------------------------------------- MosSpec
\* calculate_mos in fixed point. An f64 argument is NaN or a whole number (ms, percent).
\* R and the score are kept in units of 1e-4, products rounded down to that unit: the
\* score differs from the f64 result by less than 1e-3.
NaN == [nan |-> TRUE, x |-> 0]
F64(x) == [nan |-> FALSE, x |-> x]

\* floor(a * b / 10^4) for 0 <= a and |a * b| / 10^4 within the integers, without an
\* intermediate product beyond them.
MulE4(a, b) ==
  LET ah == a \div 10000
      al == a % 10000
      bh == b \div 10000
      bl == b % 10000 IN
  ah * b + al * bh + (al * bl) \div 10000

\* f64::clamp.
clamp(x, lo, hi) == IF x < lo THEN lo ELSE IF x > hi THEN hi ELSE x

\* R in units of 1e-4: 93.2 - ld / 40 - 30 * min(loss_pct / 100, 1), clamped to [0, 100],
\* with d = rtt / 2 + 2 * jitter and ld = min(d, 177.3) in tenths of a ms.
r_factor(rtt_ms, jitter_ms, loss_pct) ==
  LET d == 5 * rtt_ms + 20 * jitter_ms
      ld == Min(d, 1773)
      ie_eff == 3000 * Min(loss_pct, 100) IN
  clamp(932000 - 25 * ld - ie_eff, 0, 1000000)

\* 1 + 0.035 r + 7e-6 r (r - 60) (100 - r) in units of 1e-4, clamped to [1, 5].
mos_of(r) ==
  LET cubic == MulE4(MulE4(r, r - 600000), 1000000 - r) IN
  clamp(10000 + (35 * r) \div 1000 + (7 * (cubic \div 1000)) \div 1000, 10000, 50000)

\* calculate_mos.
calculate_mos(rtt_ms, jitter_ms, loss_pct) ==
  IF rtt_ms.nan \/ jitter_ms.nan \/ loss_pct.nan THEN None
  ELSE IF rtt_ms.x < 0 \/ jitter_ms.x < 0 \/ loss_pct.x < 0 THEN None
  ELSE Some(mos_of(r_factor(rtt_ms.x, jitter_ms.x, loss_pct.x)))

\* Median RTT, jitter and loss percentage the score is asked for.
RttValues == {NaN} \cup {F64(x) : x \in {-1, 0, 20, 150, 400}}
JitterValues == {NaN} \cup {F64(x) : x \in {-1, 0, 5, 40}}
LossValues == {NaN} \cup {F64(x) : x \in {-1, 0, 2, 50, 100, 250}}

MosInit ==
  /\ AtRest
  /\ calc \in [ fn : {"calculate_mos"}, rtt_ms : RttValues, jitter_ms : JitterValues,
                loss_pct : LossValues, done : {FALSE}, out : {None} ]

\* calculate_mos(rtt, jitter, loss_pct) is called.
MosCall ==
  /\ calc # NoCall /\ calc.fn = "calculate_mos"
  /\ ~calc.done
  /\ calc' = [calc EXCEPT !.done = TRUE,
                          !.out = calculate_mos(calc.rtt_ms, calc.jitter_ms, calc.loss_pct)]
  /\ UNCHANGED restVars

MosNext == MosCall

MosSpec == MosInit /\ [][MosNext]_vars

\* -------------------------------------------------------------- LabelSpec
\* The end of run_udp_like_loss_probe: the loss percentage of the counters and its
\* quality label. A percentage is kept in units of 1e-4, rounded down.

\* A mapping whose Good tier reaches up to 2.5 %.
LabelWideGood(loss) ==
  IF loss.nan THEN "Unknown"
  ELSE IF loss.x = 0 THEN "Excellent"
  ELSE IF loss.x < 25000 THEN "Good"
  ELSE IF loss.x < 50000 THEN "Poor"
  ELSE "Bad"

\* quality_label.
quality_label(loss) ==
  IF loss.nan THEN "Unknown"
  ELSE IF loss.x = 0 THEN "Excellent"
  ELSE IF loss.x < 10000 THEN "Good"
  ELSE IF loss.x < 25000 THEN "Acceptable"
  ELSE IF loss.x < 50000 THEN "Poor"
  ELSE "Bad"

\* `let loss_pct = if sent == 0 { 0.0 } else { sent.saturating_sub(received) * 100 / sent }`.
loss_pct(sent, received) ==
  IF sent = 0 THEN F64(0)
  ELSE F64((saturating_sub(sent, received) * 100 * 10000) \div sent)

\* The loop is through with sent = attempts and any number of answers received.
LabelInit ==
  /\ AtRest
  /\ calc \in [ fn : {"quality_label"}, pc : {"loss"}, sent : {attempts},
                received : 0..attempts, loss : {NaN}, label : {""} ]

\* The loss percentage is computed from the counters.
LabelLoss ==
  /\ calc # NoCall /\ calc.fn = "quality_label"
  /\ calc.pc = "loss"
  /\ calc' = [calc EXCEPT !.pc = "label", !.loss = loss_pct(calc.sent, calc.received)]
  /\ UNCHANGED restVars

\* quality_label(loss_pct) is called for the summary.
LabelCall ==
  /\ calc # NoCall /\ calc.fn = "quality_label"
  /\ calc.pc = "label"
  /\ calc' = [calc EXCEPT !.pc = "done", !.label = quality_label(calc.loss)]
  /\ UNCHANGED restVars

LabelNext == LabelLoss \/ LabelCall

LabelSpec == LabelInit /\ [][LabelNext]_vars

\* ----------------------------------------------------------------- UiSpec
\* The TUI thread (src/tui/mod.rs, run_threaded) at the other end of the command and event
\* channels of the controller; every run probes the idle latency once, its other durations
\* are zero. The Info and RunCompleted events of the controller set the status line, the
\* last result and the history only and are left out of the channel.
MaxKeys == 2

UiCfg == [ZeroCfg EXCEPT !.idle_probes = 1]

\* tui::run: the channels are created, the TUI thread is spawned, run_controller starts.
UiInit ==
  /\ test_on_launch \in BOOLEAN
  /\ cfg = UiCfg
  /\ cpc = "loop"
  /\ run_ctx = IF test_on_launch THEN 1 ELSE NoRun
  /\ restart_pending = FALSE
  /\ quit_pending = FALSE
  /\ cancel_deadline = NoDeadline
  /\ cmd_q = <<>>
  /\ cmd_open = TRUE
  /\ eng = [r \in Runs |-> IF test_on_launch /\ r = 1 THEN start_run(FreshRun) ELSE FreshRun]
  /\ obs = [r \in Runs |-> FreshObs]
  /\ hist = FreshHist
  /\ emitted = "none"
  /\ calc = NoCall
  /\ ui = FreshUi

\* apply_event: a PhaseStarted resets the samples and counts of its phase, a LatencySample
\* is counted and, with an RTT, pushed to the series and samples of its phase, a
\* ThroughputTick is pushed to the throughput series of its phase.
apply_event(u, ev) ==
  CASE ev.kind = "PhaseStarted" ->
         [u EXCEPT !.phase = ev.phase,
                   !.samples[ev.phase] = {},
                   !.counted[ev.phase] = {},
                   !.sent[ev.phase] = 0,
                   !.received[ev.phase] = 0]
    [] ev.kind = "LatencySample" ->
         [u EXCEPT !.sent[ev.phase] = @ + 1,
                   !.counted[ev.phase] = @ \cup {ev.gen},
                   !.received[ev.phase] = @ + (IF ev.ok THEN 1 ELSE 0),
                   !.series[ev.phase] = IF ev.ok THEN @ \cup {ev.gen} ELSE @,
                   !.samples[ev.phase] = IF ev.ok THEN @ \cup {ev.gen} ELSE @]
    [] ev.kind = "ThroughputTick" ->
         IF ev.phase \in {"Download", "Upload"}
         THEN [u EXCEPT !.tp[ev.phase] = @ \cup {ev.gen}]
         ELSE u

\* One turn of `while let Ok(ev) = event_rx.try_recv()`: the oldest event in the channel.
UiRecv ==
  /\ ui.open
  /\ \E r \in Runs :
       /\ obs[r].chan # <<>>
       /\ \A q \in Runs : obs[q].chan # <<>> => Head(obs[r].chan).at <= Head(obs[q].chan).at
       /\ ui' = apply_event(ui, Head(obs[r].chan))
       /\ obs' = [obs EXCEPT ![r].chan = Tail(@)]
  /\ UNCHANGED <<test_on_launch, cfg, calc, ctlVars, envVars, eng, hist, emitted>>

\* A key press is read (model bounds: MaxKeys presses, MaxCmdQueue commands in flight).
KeyRead == ui.open /\ ui.keys < MaxKeys /\ Len(cmd_q) < MaxCmdQueue

\* cmd_tx.send(UiCommand::Pause(state.paused)).
SendPause(q, paused) == Append(q, IF paused THEN "PauseTrue" ELSE "PauseFalse")

\* 'p': the indicator is toggled and its new value sent.
KeyP ==
  /\ KeyRead
  /\ ui' = [ui EXCEPT !.keys = @ + 1, !.paused = ~@]
  /\ cmd_q' = SendPause(cmd_q, ~ui.paused)
  /\ UNCHANGED <<test_on_launch, cfg, calc, ctlVars, cmd_open, eng, obs, hist, emitted>>

\* The state the 'r' arm leaves on the dashboard: series, points, samples and counts
\* cleared, the phase IdleLatency, the indicator off.
RestartReset(u) ==
  [FreshUi EXCEPT !.keys = u.keys + 1, !.restarts = u.restarts + 1]

\* 'r' on the dashboard: Restart is sent and the live state is reset.
KeyR ==
  /\ KeyRead
  /\ cmd_q' = Append(cmd_q, "Restart")
  /\ ui' = RestartReset(ui)
  /\ UNCHANGED <<test_on_launch, cfg, calc, ctlVars, cmd_open, eng, obs, hist, emitted>>

\* 'q' or Ctrl-C: Quit is sent and the loop is left; cmd_tx and event_rx are dropped with
\* the thread, and the events still in the channel with them.
KeyQ ==
  /\ KeyRead
  /\ cmd_q' = Append(cmd_q, "Quit")
  /\ cmd_open' = FALSE
  /\ ui' = [ui EXCEPT !.keys = @ + 1, !.open = FALSE]
  /\ obs' = [r \in Runs |-> [obs[r] EXCEPT !.chan = <<>>]]
  /\ UNCHANGED <<test_on_launch, cfg, calc, ctlVars, eng, hist, emitted>>

Tui == UiRecv \/ KeyP \/ KeyR \/ KeyQ

UiNext ==
  \/ Controller
  \/ TimePasses
  \/ Tui
  \/ \E r \in Runs : EngineZero(r) \/ Prober(r)

UiSpec == UiInit /\ [][UiNext]_vars

\* ================================================================= claims
\* Steps of the controller and of a run, as the claims name them.

\* start_run spawns run r in this step.
Starts(r) == eng[r].pc # "meta" /\ eng'[r].pc = "meta"

\* The controller takes command c off the command channel in this step.
AcceptsCmd(c) == cpc = "loop" /\ cmd_q # <<>> /\ Head(cmd_q) = c /\ cmd_q' = Tail(cmd_q)

\* The controller learns in this step that the command channel is closed.
AcceptsClosure ==
  cpc = "loop" /\ cmd_q = <<>> /\ cmd_q' = <<>> /\ ~cmd_open /\ ~quit_pending /\ quit_pending'

\* The controller observes the completion of the run it holds in this step.
HandleTaken ==
  run_ctx # NoRun /\ eng[run_ctx].result # "none" /\ eng'[run_ctx].result = "none"

ActiveRuns == {r \in Runs : Active(r)}
HeldActive == run_ctx # NoRun /\ Active(run_ctx)

\* A Cancel is queued for the run or its cancelled flag is set.
CancelOnWay(e) == e.cancel \/ \E i \in 1..Len(e.ctrl_q) : e.ctrl_q[i] = "Cancel"

\* This step puts one Cancel on the control channel of the run held, if it still listens.
CancelSent ==
  ReceiverAlive(eng[run_ctx]) =>
    eng'[run_ctx].ctrl_q = Append(eng[run_ctx].ctrl_q, "Cancel")

PhaseOrder == <<"IdleLatency", "Download", "Upload">>

\* C1: at most one engine run is active at any time, the active run is the one the
\* controller holds, and a run is started only in a step before which no run is active and
\* the controller holds no run or observes the completion of the one it holds.
C1_SingleActiveRun ==
  /\ Cardinality(ActiveRuns) <= 1
  /\ [][ /\ Cardinality(ActiveRuns') <= 1
         /\ \A r \in Runs : Active(r)' => run_ctx' = r
         /\ \A r \in Runs : Starts(r) =>
              /\ ActiveRuns = {}
              /\ run_ctx = NoRun \/ HandleTaken
              /\ run_ctx' = r ]_vars

\* A run that was started when the completion of the previous one was observed.
C1_Witness == emitted = "RunCompleted" /\ HeldActive /\ ~restart_pending

\* C2: a Restart accepted while the run held is active puts a Cancel on that run's control
\* channel and starts nothing; as long as the restart is pending and that run is active the
\* Cancel is queued or received; the next run is started only on the observed completion
\* of that run, and has emitted no PhaseStarted when it starts.
C2_CancelBeforeNextRun ==
  [][ /\ (AcceptsCmd("Restart") /\ HeldActive) =>
           /\ CancelSent
           /\ CancelOnWay(eng'[run_ctx])
           /\ \A r \in Runs : ~Starts(r)
      /\ (restart_pending' /\ HeldActive') => CancelOnWay(eng'[run_ctx'])
      /\ \A r \in Runs : (Starts(r) /\ run_ctx # NoRun) =>
           /\ hist.restart_hits >= 1
           /\ HandleTaken
           /\ obs'[r].phase_started = <<>> ]_vars

\* The run held is active, a restart is pending and the run has received the Cancel.
C2_Witness == restart_pending /\ HeldActive /\ eng[run_ctx].cancel

\* C3: Restart accepted while a run is held starts nothing and keeps the run held; a run
\* started while a run is held is started on that run's observed completion, after at
\* least one Restart, alone, and with the pending restart consumed, so that a second
\* Restart for the same run starts no second run.
C3_RestartTwiceOneRun ==
  /\ restart_pending <=> hist.restart_hits >= 1
  /\ [][ /\ cpc' = "loop" => (restart_pending' <=> hist'.restart_hits >= 1)
         /\ (AcceptsCmd("Restart") /\ run_ctx # NoRun) =>
              /\ \A r \in Runs : ~Starts(r)
              /\ run_ctx' = run_ctx
              /\ ActiveRuns' = ActiveRuns
         /\ \A r \in Runs : (Starts(r) /\ run_ctx # NoRun) =>
              /\ HandleTaken
              /\ hist.restart_hits >= 1
              /\ ~restart_pending'
              /\ hist'.restart_hits = 0
              /\ ActiveRuns' = {r}
         /\ (HandleTaken /\ hist.restart_hits >= 1 /\ ~quit_pending) =>
              Cardinality({r \in Runs : Starts(r)}) = 1 ]_vars

\* Two Restart commands were accepted while the same run was held, and it is still active.
C3_Witness == hist.restart_hits >= 2 /\ HeldActive

\* C4 as stated: every Restart accepted while no Quit is pending is eventually followed by
\* the start of a new run.
C4_Original == (restart_pending /\ ~quit_pending) ~> ~restart_pending

\* C4, amended: a pending restart is eventually followed by the start of a new run unless
\* a Quit or the closure of the command channel is accepted first; Restart while Idle
\* starts a run in the same step; a completion observed with a restart and no quit pending
\* emits the run's terminal event, clears the deadline and starts the new run.
C4_RestartStartsUnlessQuit ==
  /\ (restart_pending /\ ~quit_pending) ~> (~restart_pending \/ quit_pending)
  /\ [][ /\ (AcceptsCmd("Restart") /\ run_ctx = NoRun) =>
              \E r \in Runs : Starts(r) /\ run_ctx' = r
         /\ (HandleTaken /\ restart_pending /\ ~quit_pending) =>
              /\ emitted' = TerminalEvent(eng[run_ctx].result)
              /\ cancel_deadline' = NoDeadline
              /\ \E r \in Runs : Starts(r) /\ run_ctx' = r
              /\ cpc' = "loop"
              /\ ~restart_pending' ]_vars

\* A run started on the observed failure of the previous one.
C4_Witness ==
  /\ emitted \in {"RunFailed", "RunJoinFailed"}
  /\ run_ctx # NoRun
  /\ eng[run_ctx].pc = "meta"
  /\ cancel_deadline = NoDeadline

\* C5 as stated: Quit or the closure of the command channel, while a run is held, sends
\* Cancel, arms the deadline and waits with quit pending; while Idle it ends the controller.
C5_Original ==
  [][ /\ ((AcceptsCmd("Quit") \/ AcceptsClosure) /\ run_ctx # NoRun) =>
           /\ CancelSent
           /\ cancel_deadline' = DeadlineSteps
           /\ quit_pending'
           /\ cpc' = "loop"
           /\ run_ctx' = run_ctx
      /\ ((AcceptsCmd("Quit") \/ AcceptsClosure) /\ run_ctx = NoRun) => cpc' = "done" ]_vars

\* C5, amended: Quit while a run is held sends Cancel, reports "Cancelling", arms the
\* deadline and waits with quit pending; the closure of the command channel while a run is
\* held sends Cancel and waits with quit pending, but leaves the deadline as it is and
\* reports nothing; while Idle both end the controller.
C5_QuitArmsClosureDoesNot ==
  [][ /\ (AcceptsCmd("Quit") /\ run_ctx # NoRun) =>
           /\ CancelSent
           /\ cancel_deadline' = DeadlineSteps
           /\ emitted' = "Cancelling"
           /\ quit_pending'
           /\ cpc' = "loop"
           /\ run_ctx' = run_ctx
      /\ (AcceptsClosure /\ run_ctx # NoRun) =>
           /\ CancelSent
           /\ cancel_deadline' = cancel_deadline
           /\ emitted' = "none"
           /\ quit_pending'
           /\ cpc' = "loop"
           /\ run_ctx' = run_ctx
      /\ ((AcceptsCmd("Quit") \/ AcceptsClosure) /\ run_ctx = NoRun) => cpc' = "done" ]_vars

\* The closure was accepted while the run held was active: quit is pending, the Cancel is
\* on its way, and no deadline is or was armed for this run.
C5_Witness ==
  /\ quit_pending
  /\ ~cmd_open
  /\ HeldActive
  /\ CancelOnWay(eng[run_ctx])
  /\ cancel_deadline = NoDeadline
  /\ hist.still_count = 0

\* C6: the controller starts with a run iff test_on_launch; it returns only with quit
\* pending, holding no run, with no run active and no completion unobserved; a completion
\* observed with quit pending emits the run's terminal event, clears the deadline and ends
\* the controller.
C6_Lifecycle ==
  /\ cpc = "loop"
  /\ (run_ctx # NoRun) <=> test_on_launch
  /\ HeldActive <=> test_on_launch
  /\ [][ /\ (cpc = "loop" /\ cpc' = "done") =>
              /\ quit_pending'
              /\ run_ctx' = NoRun
              /\ ActiveRuns' = {}
              /\ \A r \in Runs : eng'[r].result = "none"
         /\ cpc = "done" => cpc' = "done"
         /\ (HandleTaken /\ quit_pending) =>
              /\ emitted' = TerminalEvent(eng[run_ctx].result)
              /\ cancel_deadline' = NoDeadline
              /\ cpc' = "done" ]_vars

\* The controller returned on the completion of a run it had cancelled for Quit.
C6_Witness == cpc = "done" /\ emitted = "RunCompleted" /\ quit_pending

\* C7 as stated: on a run that failed or did not join the controller emits the failure
\* event and does not return: it holds no run, or the run a pending restart asked for.
C7_Original ==
  [][ (HandleTaken /\ eng[run_ctx].result \in {"err", "panic"}) =>
        /\ emitted' = (IF eng[run_ctx].result = "err" THEN "RunFailed" ELSE "RunJoinFailed")
        /\ cpc' = "loop" ]_vars

\* C7, amended: on a run that failed or did not join the controller emits the failure
\* event and clears the deadline; with a quit pending it returns; otherwise it goes on,
\* with the new run if a restart is pending and Idle if not, and a Restart accepted while
\* Idle starts a run.
C7_FailureReported ==
  [][ /\ (HandleTaken /\ eng[run_ctx].result \in {"err", "panic"}) =>
           /\ emitted' = (IF eng[run_ctx].result = "err" THEN "RunFailed" ELSE "RunJoinFailed")
           /\ cancel_deadline' = NoDeadline
           /\ IF quit_pending
              THEN cpc' = "done" /\ run_ctx' = NoRun
              ELSE /\ cpc' = "loop"
                   /\ IF restart_pending
                      THEN \E r \in Runs : Starts(r) /\ run_ctx' = r
                      ELSE run_ctx' = NoRun
      /\ (AcceptsCmd("Restart") /\ run_ctx = NoRun) =>
           \E r \in Runs : Starts(r) /\ run_ctx' = r ]_vars

\* Idle after a run whose task panicked.
C7_Witness == emitted = "RunJoinFailed" /\ cpc = "loop" /\ run_ctx = NoRun

\* C8: "Still cancelling" is emitted only by a step before which the deadline is armed and
\* has passed, a run is held and a restart or quit is pending; that step clears the
\* deadline; and between two armings of the deadline it is emitted at most once.
C8_StillCancellingOnce ==
  /\ hist.still_count <= 1
  /\ [][ /\ hist'.still_count <= 1
         /\ (hist'.still_count > hist.still_count) =>
              /\ cancel_deadline = 0
              /\ run_ctx # NoRun
              /\ restart_pending \/ quit_pending
              /\ cancel_deadline' = NoDeadline
              /\ emitted' = "StillCancelling"
         /\ (emitted' = "StillCancelling" /\ emitted # "StillCancelling") =>
              hist'.still_count > hist.still_count ]_vars

\* A later iteration of the controller, after the message, with the run still held.
C8_Witness ==
  /\ hist.still_count = 1
  /\ emitted = "none"
  /\ HeldActive
  /\ cancel_deadline = NoDeadline

\* C9: the PhaseStarted events of a run are a prefix of IdleLatency, Download, Upload, and
\* every LatencySample and ThroughputTick carries the phase of the latest PhaseStarted
\* event that preceded it.
C9_PhaseOrder ==
  \A r \in Runs :
    LET ps == obs[r].phase_started IN
    /\ Len(ps) <= Len(PhaseOrder)
    /\ \A i \in 1..Len(ps) : ps[i] = PhaseOrder[i]
    /\ \A s \in obs[r].samples : s[3] \in 1..Len(ps) /\ s[2] = PhaseOrder[s[3]]

\* A run that reached the upload phase with samples of every phase.
C9_Witness ==
  \E r \in Runs :
    /\ obs[r].phase_started = PhaseOrder
    /\ {<<"LatencySample", "IdleLatency", 1>>, <<"ThroughputTick", "Download", 2>>,
        <<"LatencySample", "Download", 2>>, <<"ThroughputTick", "Upload", 3>>}
         \subseteq obs[r].samples

\* C10 as stated, for the worker loop: a worker that checks its flag once the run is
\* cancelled stops.
C10_Original ==
  [][ \A r \in Runs : \A w \in 1..MaxWorkers :
        ( /\ eng[r].cancel
          /\ w \in DOMAIN eng[r].wpc
          /\ eng[r].wpc[w] = "check"
          /\ w \in DOMAIN eng'[r].wpc
          /\ eng'[r].wpc[w] # "check" ) => eng'[r].wpc[w] = "done" ]_vars

\* C10, amended: once the cancelled flag of a run is set its task eventually ends, also
\* when it is paused; the prober issues no further probe and the sampler no further tick,
\* each leaving its loop at its next check; a worker stops at its next check once the stop
\* flag is set, which the sampler sets when it leaves its loop.
C10_CancelEffective ==
  /\ \A r \in Runs : (Active(r) /\ eng[r].cancel) ~> ~Active(r)
  /\ [][ \A r \in Runs :
           /\ (eng[r].cancel /\ eng'[r].ppc = "probing") => eng[r].ppc = "probing"
           /\ (eng[r].cancel /\ eng[r].ppc = "head") => eng'[r].ppc # "pause"
           /\ eng[r].cancel => eng'[r].nticks <= eng[r].nticks
           /\ (eng[r].cancel /\ eng[r].pc \in {"s_head", "s_pause"}) =>
                eng'[r].pc \in {eng[r].pc, "join"}
           /\ eng'[r].pc = "join" => eng'[r].stop
           /\ \A w \in 1..MaxWorkers :
                ( /\ eng[r].stop
                  /\ w \in DOMAIN eng[r].wpc
                  /\ eng[r].wpc[w] = "check"
                  /\ w \in DOMAIN eng'[r].wpc ) => eng'[r].wpc[w] \in {"check", "done"} ]_vars

\* The sampler of the download phase left its loop before its first tick, with the run
\* paused and cancelled.
C10_Witness ==
  \E r \in Runs :
    /\ eng[r].pc = "join"
    /\ eng[r].phase = "Download"
    /\ eng[r].paused
    /\ eng[r].cancel
    /\ <<"ThroughputTick", "Download", 2>> \notin obs[r].samples

WorkerRunning(e) == \E w \in DOMAIN e.wpc : e.wpc[w] # "done"

\* C12: a throughput phase leaves its sampling loop only into the join, with the stop flag
\* set; it is past the join (awaiting the loaded latency, returned with Ok or with the
\* error, or in a later phase) only when every worker it spawned has finished; no worker
\* is running when PhaseStarted(Upload) is emitted.
C12_WorkersJoined ==
  /\ \A r \in Runs : ~WorkerRunning(eng[r])
  /\ [][ \A r \in Runs :
           /\ WorkerRunning(eng'[r]) => eng'[r].pc \in {"s_head", "s_pause", "join"}
           /\ (eng[r].pc \in {"s_head", "s_pause"} /\ eng'[r].pc \notin {"s_head", "s_pause"}) =>
                eng'[r].pc = "join" /\ eng'[r].stop
           /\ (eng[r].pc = "join" /\ eng'[r].pc # "join") =>
                eng'[r].pc = "lat_wait" /\ eng[r].stop /\ ~WorkerRunning(eng[r])
           /\ Len(obs'[r].phase_started) > Len(obs[r].phase_started) =>
                ~WorkerRunning(eng[r]) ]_vars

\* The download phase returned the error, after both of its workers had been joined.
C12_Witness ==
  \E r \in Runs :
    /\ eng[r].pc = "done"
    /\ eng[r].result = "err"
    /\ eng[r].phase = "Download"
    /\ DOMAIN eng[r].wpc = 1..MaxWorkers
    /\ ~WorkerRunning(eng[r])

\* C13: a throughput phase that waits for the loaded latency goes on only with a summary
\* received; when it stops waiting without one (the 30 s timeout, or the channel closed by
\* a subtask that ended without sending) the run's task ends with the error: no
\* PhaseStarted follows, the RunResult has no field, and the controller reports "Run
\* failed", not RunCompleted.
C13_NoSummaryFailsRun ==
  [][ \A r \in Runs :
        /\ (eng[r].pc = "lat_wait" /\ eng'[r].pc # "lat_wait" /\ ~eng[r].lat_res) =>
             /\ eng[r].ppc \in {"pause", "dead"}
             /\ eng'[r].pc = "done"
             /\ eng'[r].result = "err"
             /\ eng'[r].fields = {}
             /\ obs'[r] = obs[r]
        /\ (eng[r].pc = "lat_wait" /\ eng'[r].pc \notin {"lat_wait", "done"}) => eng[r].lat_res
        /\ eng[r].result = "err" =>
             /\ eng'[r].result \in {"err", "none"}
             /\ eng'[r].pc \in {"done", "none"}
             /\ obs'[r].phase_started = obs[r].phase_started
             /\ eng'[r].result = "none" => emitted' = "RunFailed" ]_vars

\* The upload phase failed because its loaded-latency task had ended without a summary.
C13_Witness ==
  \E r \in Runs :
    /\ eng[r].pc = "done"
    /\ eng[r].result = "err"
    /\ eng[r].ppc = "dead"
    /\ eng[r].phase = "Upload"

\* C14: whatever the outcome of the metadata fetches, the location lookup, the TURN fetch
\* and the UDP probe, the run goes on from them (only the construction of the client fails
\* a run before its first phase, and the tail always ends with Ok); in the RunResult meta
\* is present iff one of the two metadata fetches succeeded, server iff moreover the
\* locations were fetched and the colo was found, turn iff experimental is set and the TURN
\* fetch succeeded, experimental_udp iff moreover the UDP probe succeeded; the UDP probe
\* runs iff experimental is set and the TURN fetch succeeded.
C14_OptionalNeverFails ==
  /\ [](\A r \in Runs :
          /\ eng[r].pc = "meta" => ENABLED SpawnListener(r)
          /\ eng[r].pc = "tail" => ENABLED EngineTail(r)
          /\ eng[r].result = "ok" =>
               LET f == eng[r].fields IN
               /\ "meta" \in f <=> (cfg.net.meta \/ cfg.net.headers)
               /\ "server" \in f <=> ("meta" \in f /\ cfg.net.locations /\ cfg.net.colo)
               /\ "turn" \in f <=> (cfg.experimental /\ cfg.net.turn)
               /\ "experimental_udp" \in f <=> ("turn" \in f /\ cfg.net.udp)
               /\ eng[r].udp_ran <=> (cfg.experimental /\ cfg.net.turn))
  /\ [][ \A r \in Runs :
           /\ (eng[r].pc = "meta" /\ eng'[r].pc \notin {"meta", "done"}) =>
                eng'[r].pc = "idle" /\ eng'[r].result = "none"
           /\ (eng[r].pc = "tail" /\ eng'[r].pc # "tail") =>
                eng'[r].pc = "done" /\ eng'[r].result = "ok" ]_vars

\* An experimental run completed although every best-effort request failed.
C14_Witness ==
  \E r \in Runs :
    /\ eng[r].result = "ok"
    /\ eng[r].fields = {}
    /\ ~eng[r].udp_ran
    /\ cfg.experimental
    /\ cfg.net = [meta |-> FALSE, headers |-> FALSE, locations |-> FALSE, colo |-> FALSE,
                  turn |-> FALSE, udp |-> FALSE]

\* The listener of the run takes message msg off its control channel in this step.
ListenerTakes(r, msg) ==
  eng[r].lpc = "wait" /\ eng[r].ctrl_q # <<>> /\ Head(eng[r].ctrl_q) = msg
    /\ (eng'[r].ctrl_q = Tail(eng[r].ctrl_q) \/ eng'[r].lpc # "wait")

\* The flags of the run are gone with its last task.
FlagsDropped(r) == ~Live(eng'[r]) /\ ~eng'[r].paused /\ ~eng'[r].cancel

\* C15: a run starts with both of its flags false; its paused flag changes only when its
\* own listener takes a Pause(p), and is p afterwards; its cancelled flag changes only when
\* its own listener takes a Cancel, and is true afterwards; no other step of any task
\* changes a flag of a run whose tasks are alive.
C15_FlagsWrittenByListener ==
  /\ \A r \in Runs : ~eng[r].paused /\ ~eng[r].cancel
  /\ [][ \A r \in Runs :
           /\ Starts(r) => ~eng'[r].paused /\ ~eng'[r].cancel
           /\ eng'[r].paused # eng[r].paused =>
                \/ ListenerTakes(r, "PauseTrue") /\ eng'[r].paused
                \/ ListenerTakes(r, "PauseFalse") /\ ~eng'[r].paused
                \/ FlagsDropped(r)
           /\ eng'[r].cancel # eng[r].cancel =>
                \/ ListenerTakes(r, "Cancel") /\ eng'[r].cancel
                \/ FlagsDropped(r)
           /\ (ListenerTakes(r, "PauseTrue") /\ Live(eng'[r])) =>
                eng'[r].paused /\ eng'[r].cancel = eng[r].cancel
           /\ (ListenerTakes(r, "PauseFalse") /\ Live(eng'[r])) =>
                ~eng'[r].paused /\ eng'[r].cancel = eng[r].cancel
           /\ (ListenerTakes(r, "Cancel") /\ Live(eng'[r])) =>
                eng'[r].cancel /\ eng'[r].paused = eng[r].paused ]_vars

\* The run held was paused, resumed and then cancelled, and is still active.
C15_Witness ==
  /\ HeldActive
  /\ eng[run_ctx].cancel
  /\ ~eng[run_ctx].paused
  /\ eng[run_ctx].pc = "lat_wait"

\* C16 (as stated): whenever TestEngine::run of a run has returned, the control listener
\* of that run is no longer waiting on its control channel.
C16_Original ==
  \A r \in Runs : eng[r].pc = "done" /\ eng[r].result # "none" => eng[r].lpc # "wait"

\* The run returned the 30 s timeout error while its loaded prober sat in its pause gate:
\* the listener is still waiting on the control channel.
C16_Witness ==
  \E r \in Runs :
    /\ eng[r].pc = "done" /\ eng[r].result = "err"
    /\ eng[r].ppc = "pause" /\ eng[r].paused /\ ~eng[r].cancel
    /\ eng[r].lpc = "wait"

\* C17: a running prober has emitted one LatencySample per finished attempt, as many of
\* them with an RTT as it has received replies, and received <= sent; a probe in flight is
\* the one attempt without its sample yet, and its resolution emits exactly one; the
\* summary a prober returns has sent = the samples emitted, received = those with an RTT,
\* and received <= sent.
C17_OneSamplePerAttempt ==
  /\ [](\A r \in Runs :
          LET e == eng[r]
              o == obs[r] IN
          /\ e.received <= e.sent
          /\ e.lat_msg.received <= e.lat_msg.sent
          /\ o.lat_ok = e.received
          /\ e.ppc \in {"head", "pause"} => o.lat_emitted = e.sent
          /\ e.ppc = "probing" => o.lat_emitted + 1 = e.sent)
  /\ [][ \A r \in Runs :
           LET e == eng[r]
               o == obs[r]
               s == latency_summary_from_samples(e.sent, e.received) IN
           /\ (e.ppc = "probing" /\ eng'[r].ppc = "head") =>
                /\ obs'[r].lat_emitted = o.lat_emitted + 1
                /\ obs'[r].lat_ok \in {o.lat_ok, o.lat_ok + 1}
                /\ \E x \in obs'[r].samples : x[1] = "LatencySample" /\ x[2] = e.pphase
           /\ (e.ppc \in {"head", "pause"} /\ eng'[r].ppc = "done" /\ eng'[r].lat_res) =>
                /\ eng'[r].lat_msg.sent = o.lat_emitted
                /\ eng'[r].lat_msg.received = o.lat_ok
           /\ (e.pc = "idle" /\ eng'[r].pc = "s_head") =>
                /\ s.sent = o.lat_emitted
                /\ s.received = o.lat_ok
                /\ s.received <= s.sent ]_vars

\* A loaded prober returned a summary of two attempts of which one failed.
C17_Witness ==
  \E r \in Runs :
    /\ eng[r].lat_res
    /\ eng[r].lat_msg = latency_summary_from_samples(2, 1)
    /\ \E x \in obs[r].samples : x[1] = "LatencySample" /\ x[2] = eng[r].pphase

\* The prober of the run finishes in this step: its summary goes to the run (idle) or to
\* lat_tx (loaded), or the run's tasks are gone.
ProberReturns(r) ==
  \/ eng[r].ppc # "done" /\ eng'[r].ppc = "done"
  \/ eng[r].pc = "idle" /\ eng'[r].pc # "idle"
  \/ ~Live(eng'[r])

\* C18 (as stated): while the run is paused and not cancelled, and once it is cancelled,
\* the prober issues no probe and emits no sample.
C18_Original ==
  [][ \A r \in Runs :
        (Held(eng[r]) \/ eng[r].cancel) /\ eng[r].ppc \in {"head", "pause", "probing"} =>
          /\ eng'[r].sent <= eng[r].sent
          /\ obs'[r].lat_emitted <= obs[r].lat_emitted ]_vars

\* C18: a probe is issued only when the prober finds the run neither paused nor cancelled;
\* held in its pause gate it stays there without issuing or emitting anything until the
\* run is unpaused or cancelled; finding the run cancelled at its loop head or at the gate
\* it returns without another probe or sample. The only sample emitted while the run is
\* paused or cancelled is the one of the probe that was already in flight.
C18_ProberHonoursFlags ==
  [][ \A r \in Runs :
        LET e == eng[r] IN
        /\ eng'[r].sent > e.sent => ~e.paused /\ ~e.cancel /\ eng'[r].ppc = "probing"
        /\ obs'[r].lat_emitted > obs[r].lat_emitted =>
             e.ppc = "probing" /\ obs'[r].lat_emitted = obs[r].lat_emitted + 1
        /\ (e.ppc = "pause" /\ Held(e) /\ Live(eng'[r])) =>
             /\ eng'[r].ppc = "pause"
             /\ eng'[r].sent = e.sent
             /\ obs'[r].lat_emitted = obs[r].lat_emitted
        /\ (e.ppc \in {"head", "pause"} /\ e.cancel
              /\ <<eng'[r].ppc, eng'[r].pphase, eng'[r].sent>> # <<e.ppc, e.pphase, e.sent>>) =>
             ProberReturns(r) ]_vars

\* A loaded prober held in its pause gate after a probe whose sample was emitted.
C18_Witness ==
  \E r \in Runs :
    /\ eng[r].paused /\ ~eng[r].cancel
    /\ eng[r].ppc = "pause" /\ eng[r].pphase = "Download"
    /\ eng[r].sent > 0 /\ obs[r].lat_emitted = eng[r].sent

\* The ThroughputTick events of a run.
Ticks(o) == {x \in o.samples : x[1] = "ThroughputTick"}

\* C19: the sampler emits a ThroughputTick and appends a sample only in a step that found
\* the run neither paused nor cancelled; held by a pause it stays in its wait, with no tick
\* and no sample, while the workers go on issuing requests; finding the run cancelled it
\* leaves the sampling loop for the stop-and-join without another tick.
C19_SamplerHonoursFlags ==
  /\ [](\A r \in Runs :
          (eng[r].pc = "s_pause" /\ wait_blocked(eng[r])) =>
             /\ ~eng[r].stop
             /\ \A w \in DOMAIN eng[r].wpc :
                  /\ eng[r].wpc[w] = "check" => ENABLED WorkerCheck(r, w)
                  /\ eng[r].wpc[w] = "req" => ENABLED WorkerResp(r, w))
  /\ [][ \A r \in Runs :
           LET e == eng[r] IN
           /\ (eng'[r].nticks > e.nticks \/ Ticks(obs'[r]) # Ticks(obs[r])) =>
                /\ e.pc \in {"s_head", "s_pause"}
                /\ ~e.paused /\ ~e.cancel
                /\ eng'[r].nticks = e.nticks + 1
                /\ <<"ThroughputTick", e.phase, Len(obs[r].phase_started)>> \in Ticks(obs'[r])
           /\ (e.pc = "s_pause" /\ wait_blocked(e)) =>
                /\ eng'[r].pc = "s_pause"
                /\ eng'[r].nticks = e.nticks
                /\ Ticks(obs'[r]) = Ticks(obs[r])
           /\ (e.pc \in {"s_head", "s_pause"} /\ e.cancel /\ eng'[r].pc # e.pc) =>
                /\ eng'[r].pc = "join" /\ eng'[r].stop
                /\ Ticks(obs'[r]) = Ticks(obs[r]) ]_vars

\* The sampler is held by a pause after a tick while a worker has a request outstanding.
C19_Witness ==
  \E r \in Runs :
    /\ eng[r].pc = "s_pause" /\ wait_blocked(eng[r])
    /\ eng[r].nticks > 0
    /\ \E w \in DOMAIN eng[r].wpc : eng[r].wpc[w] = "req"

\* C20: a live download worker's bytes_per_req changes only when one of its requests
\* resolves, and then to max(b / 2, 100000) and only if that is less than b; no response
\* other than a 429 changes it; it never exceeds the configured size, never goes below the
\* floor from a start at or above it, never changes from a start below it, and from
\* 10,000,000 takes only the values 10,000,000, 5,000,000, 2,500,000, 1,250,000, 625,000,
\* 312,500, 156,250 and 100,000.
C20_DownloadBackoff ==
  /\ [](\A r \in Runs : \A w \in DOMAIN eng[r].bytes_per_req :
          LET b == eng[r].bytes_per_req[w]
              start == cfg.download_bytes_per_req IN
          eng[r].wpc[w] # "done" =>
            /\ b <= start
            /\ start >= MIN_DOWNLOAD_BYTES_PER_REQ => b >= MIN_DOWNLOAD_BYTES_PER_REQ
            /\ start < MIN_DOWNLOAD_BYTES_PER_REQ => b = start
            /\ start = 10000000 =>
                 b \in {10000000, 5000000, 2500000, 1250000, 625000, 312500, 156250, 100000}
            /\ "429" \notin cfg.statuses => b = start
            /\ \A st \in Statuses \ {"429"} : next_bytes_per_req(b, st) = b)
  /\ [][ \A r \in Runs : \A w \in DOMAIN eng[r].bytes_per_req :
           LET b == eng[r].bytes_per_req[w] IN
           ( /\ w \in DOMAIN eng'[r].bytes_per_req
             /\ eng[r].wpc[w] # "done" /\ eng'[r].wpc[w] # "done"
             /\ eng'[r].bytes_per_req[w] # b ) =>
               /\ eng[r].wpc[w] = "req" /\ eng'[r].wpc[w] = "check"
               /\ "429" \in cfg.statuses
               /\ eng'[r].bytes_per_req[w] = Max(b \div 2, MIN_DOWNLOAD_BYTES_PER_REQ)
               /\ eng'[r].bytes_per_req[w] < b ]_vars

\* A worker that started at 10,000,000 has been throttled down to the floor.
C20_Witness ==
  \E r \in Runs : \E w \in DOMAIN eng[r].bytes_per_req :
    /\ cfg.download_bytes_per_req = DefaultDownloadBytes
    /\ eng[r].wpc[w] = "req"
    /\ eng[r].bytes_per_req[w] = MIN_DOWNLOAD_BYTES_PER_REQ

\* C21: a buffer is accepted for a sent transaction id iff it has at least 20 bytes, its
\* first two bytes are 0x01 0x01, bytes 4..7 are the magic cookie and bytes 8..19 are the
\* id; replacing any one type, cookie or transaction-id byte of an accepted buffer, or
\* cutting it below 20 bytes, makes it rejected.
C21_StunValidator ==
  (calc # NoCall /\ calc.fn = "is_stun_binding_response" /\ calc.done) =>
    LET buf == calc.buf
        txid == calc.txid IN
    /\ calc.out = ( /\ Len(buf) >= 20
                    /\ SubSeq(buf, 1, 2) = <<1, 1>>
                    /\ SubSeq(buf, 5, 8) = <<33, 18, 164, 66>>
                    /\ SubSeq(buf, 9, 20) = txid )
    /\ calc.out =>
         /\ \A p \in {1, 2} \cup 5..20 : \A v \in Byte \ {buf[p]} :
              ~is_stun_binding_response([buf EXCEPT ![p] = v], txid)
         /\ \A n \in 0..19 : ~is_stun_binding_response(SubSeq(buf, 1, n), txid)

\* A response carrying attributes was accepted.
C21_Witness ==
  /\ calc # NoCall /\ calc.fn = "is_stun_binding_response"
  /\ calc.done /\ calc.out
  /\ Len(calc.buf) > 20

\* C22 (as stated): every answer that arrives after the answer of a later-sent packet is
\* counted as out-of-order.
C22_Original ==
  (calc # NoCall /\ calc.fn = "run_udp_like_loss_probe") => calc.late <= calc.out_of_order

\* The probe finished having read a late answer, and counted nothing as out-of-order.
C22_Witness ==
  /\ calc # NoCall /\ calc.fn = "run_udp_like_loss_probe"
  /\ calc.pc = "done"
  /\ calc.late > 0
  /\ calc.out_of_order = 0
  /\ calc.next_expected_seq > 1

\* The samples of the series taken at or after the discard threshold.
Kept(c) ==
  {i \in 1..Len(c.samples) : c.samples[i][1] >= c.samples[1][1] + Max(c.duration \div 5, 1000)}

\* C23 (as stated): with fewer than two samples, or with less than 200 ms between the
\* first sample at or after max(20% of the duration, 1 s) and the last sample, no window
\* is reported and the caller uses the raw total over the full duration; otherwise the
\* window runs from the first sample at or after the threshold to the last sample.
C23_Original ==
  (calc # NoCall /\ calc.fn = "estimate_steady_window" /\ calc.pc = "done") =>
    LET n == Len(calc.samples)
        k == CHOOSE i \in Kept(calc) : \A j \in Kept(calc) : i <= j
        last == calc.samples[n] IN
    IF n < 2 \/ Kept(calc) = {} \/ last[1] - calc.samples[k][1] < 200
    THEN ~calc.steady.some /\ calc.out = <<calc.total, calc.duration>>
    ELSE /\ calc.steady.some
         /\ calc.out = <<last[2] - calc.samples[k][2], last[1] - calc.samples[k][1]>>

\* A window was reported although every sample lies before the discard threshold.
C23_Witness ==
  /\ calc # NoCall /\ calc.fn = "estimate_steady_window" /\ calc.pc = "done"
  /\ Kept(calc) = {}
  /\ calc.steady.some
  /\ calc.out[1] > 0

\* v is the element at index k, counted from 0, of the ascending sort of s.
AtRank(s, k, v) ==
  /\ \E i \in 1..Len(s) : s[i] = v
  /\ Cardinality({i \in 1..Len(s) : s[i] < v}) <= k
  /\ k < Cardinality({i \in 1..Len(s) : s[i] <= v})

\* C24: for fewer than 2 samples there is no result; for n >= 2 the result has the
\* arithmetic mean and, of the ascending sort, the elements at indices n/2, n/4 and 3n/4
\* (truncating), which are within bounds, with p25 <= median <= p75; [1,2,3,4] gives
\* mean 2.5, median 3, p25 2, p75 4.
C24_ComputeMetrics ==
  (calc # NoCall /\ calc.fn = "compute_metrics" /\ calc.done) =>
    LET s == calc.samples
        n == Len(s) IN
    /\ n < 2 => ~calc.out.some
    /\ n >= 2 =>
         /\ calc.out.some
         /\ calc.out.v.mean[1] = Sum(s) /\ calc.out.v.mean[2] = n
         /\ n \div 2 < n /\ n \div 4 < n /\ (3 * n) \div 4 < n
         /\ AtRank(s, n \div 2, calc.out.v.median)
         /\ AtRank(s, n \div 4, calc.out.v.p25)
         /\ AtRank(s, (3 * n) \div 4, calc.out.v.p75)
         /\ calc.out.v.p25 <= calc.out.v.median
         /\ calc.out.v.median <= calc.out.v.p75
    /\ s = <<1, 2, 3, 4>> =>
         /\ 2 * calc.out.v.mean[1] = 5 * calc.out.v.mean[2]
         /\ calc.out.v.median = 3 /\ calc.out.v.p25 = 2 /\ calc.out.v.p75 = 4

\* The metrics of an unsorted series of four samples with the values 1, 2, 3, 4.
C24_Witness ==
  /\ calc # NoCall /\ calc.fn = "compute_metrics" /\ calc.done
  /\ calc.samples = <<4, 2, 1, 3>>
  /\ calc.out.some
  /\ calc.out.v.median = 3

\* C25: when the controller takes a Pause(p) while the run it holds is active, the message
\* Pause(p) is appended to that run's control channel (it is lost if the run's listener
\* has already exited), nothing else of any run changes, the run held, restart_pending,
\* quit_pending and the watchdog deadline are unchanged, the controller goes on looping,
\* no run is started, no Cancel is sent and no event is emitted.
C25_PauseOnlyForwarded ==
  [][ \A c \in {"PauseTrue", "PauseFalse"} :
        (AcceptsCmd(c) /\ HeldActive) =>
          LET e == eng[run_ctx] IN
          /\ eng'[run_ctx] = IF ReceiverAlive(e)
                             THEN [e EXCEPT !.ctrl_q = Append(@, c)]
                             ELSE e
          /\ \A r \in Runs \ {run_ctx} : eng'[r] = eng[r]
          /\ \A r \in Runs : ~Starts(r)
          /\ UNCHANGED <<run_ctx, restart_pending, quit_pending, cancel_deadline, cpc>>
          /\ UNCHANGED <<hist, obs>>
          /\ emitted' = "none" ]_vars

\* A Pause(true) forwarded by the controller waits in the control channel of the active
\* run it holds.
C25_Witness ==
  /\ HeldActive
  /\ eng[run_ctx].ctrl_q # <<>>
  /\ Head(eng[run_ctx].ctrl_q) = "PauseTrue"
  /\ ~restart_pending /\ ~quit_pending /\ cancel_deadline = NoDeadline

C27_Original ==
  [][ \A r \in Runs :
        ~( /\ eng[r].pc = "lat_wait" /\ ~eng[r].lat_res /\ eng[r].ppc = "pause"
           /\ ~eng[r].cancel
           /\ eng'[r].pc = "done" /\ eng'[r].result = "err" ) ]_vars

\* The run failed with the timeout error without ever being cancelled, and was resumed
\* afterwards: its loaded prober is probing again.
C27_Witness ==
  \E r \in Runs :
    /\ eng[r].pc = "done" /\ eng[r].result = "err"
    /\ ~eng[r].cancel /\ ~eng[r].paused
    /\ eng[r].ppc = "probing"
    /\ \A w \in DOMAIN eng[r].wpc : eng[r].wpc[w] = "done"

\* C28 (as stated): once TestEngine::run of a run has returned, with a result or with an
\* error, its loaded-latency prober is no longer running and no LatencySample of that
\* run is emitted any more.
C28_Original ==
  [][ \A r \in Runs :
        eng[r].pc = "done" /\ eng[r].result # "none" =>
          /\ eng'[r].ppc \notin {"head", "pause", "probing"}
          /\ obs'[r].lat_emitted <= obs[r].lat_emitted ]_vars

\* The run returned the 30 s timeout error, was resumed afterwards, and its download
\* prober has since finished a probe and emitted the LatencySample for it.
C28_Witness ==
  \E r \in Runs :
    /\ eng[r].pc = "done" /\ eng[r].result = "err"
    /\ ~eng[r].cancel /\ ~eng[r].paused
    /\ eng[r].ppc = "head" /\ eng[r].pphase = "Download"
    /\ eng[r].sent >= 1 /\ obs[r].lat_emitted = eng[r].sent

\* Run r puts an event on the event channel in this step: a PhaseStarted, a sample with a
\* tag not seen before, or a LatencySample of its prober.
EmitsEvent(r) ==
  \/ Len(obs'[r].phase_started) > Len(obs[r].phase_started)
  \/ obs'[r].samples \ obs[r].samples # {}
  \/ obs'[r].lat_emitted > obs[r].lat_emitted

TerminalEvents == {"RunCompleted", "RunFailed", "RunJoinFailed"}

\* C29 (as stated): the completion of a run is observed only while the controller holds
\* it and at most once, the step that observes it emits the one terminal event for what
\* the run yielded and no other step emits a terminal event, a run that has finished stays
\* held until then, and a run whose terminal event has been emitted (the controller holds
\* it no longer) puts no event on the event channel; the next run is started by that step
\* or later.
C29_Original ==
  [][ /\ emitted' \in TerminalEvents /\ emitted' # emitted =>
           HandleTaken /\ emitted' = TerminalEvent(eng[run_ctx].result)
      /\ HandleTaken => emitted' \in TerminalEvents
      /\ \A r \in Runs :
           /\ (eng[r].result # "none" /\ ~HandleTaken) =>
                 run_ctx' = r /\ eng'[r].result = eng[r].result
           /\ (run_ctx # r /\ ~Starts(r)) => ~EmitsEvent(r)
           /\ Starts(r) => run_ctx = NoRun \/ HandleTaken ]_vars

\* "Run failed" has been emitted for the run that timed out waiting for its prober; the
\* prober, resumed by a Pause(false) forwarded just before, has a probe in flight whose
\* LatencySample will follow the terminal event.
C29_Witness ==
  \E r \in Runs :
    /\ run_ctx = NoRun /\ emitted = "RunFailed"
    /\ eng[r].ppc = "probing" /\ eng[r].pphase = "Download"
    /\ eng[r].pc = "done" /\ ~eng[r].cancel

\* C30: once Quit or the closure of the command channel has been accepted, quit stays
\* pending and no run is started, neither by that step nor by any later one: a Restart
\* accepted afterwards only marks the restart pending and leaves the run held in place,
\* and the completion observed with quit pending, whether or not a restart is pending,
\* ends the controller with no run held and none active; a controller that has returned
\* starts nothing.
C30_NoRunAfterQuit ==
  [][ /\ (AcceptsCmd("Quit") \/ AcceptsClosure) =>
           quit_pending' /\ \A r \in Runs : ~Starts(r)
      /\ quit_pending =>
           /\ quit_pending'
           /\ \A r \in Runs : ~Starts(r)
           /\ cpc = "loop" => run_ctx # NoRun
      /\ (quit_pending /\ AcceptsCmd("Restart")) =>
           restart_pending' /\ run_ctx' = run_ctx /\ cpc' = "loop"
      /\ (quit_pending /\ HandleTaken) =>
           /\ cpc' = "done"
           /\ run_ctx' = NoRun
           /\ ActiveRuns' = {}
           /\ restart_pending' = restart_pending
      /\ cpc = "done" =>
           cpc' = "done" /\ run_ctx' = NoRun /\ \A r \in Runs : ~Starts(r) ]_vars

\* The controller returned on the failure of the run it held while both a quit and a
\* restart were pending: the restart was not honoured.
C30_Witness ==
  /\ cpc = "done" /\ run_ctx = NoRun
  /\ quit_pending /\ restart_pending
  /\ emitted = "RunFailed"
  /\ ActiveRuns = {}

\* C31 (as stated): a run whose cancelled flag is set starts no further probe, tick or UDP
\* probe; unless one of its tasks panics it ends with Ok, having emitted PhaseStarted for
\* IdleLatency, Download and Upload in this order; and the controller emits RunCompleted
\* for a run that returned Ok in the step that observes its completion, a replacement run
\* being started by that step or later.
C31_Original ==
  [][ /\ \A r \in Runs :
           /\ (eng[r].cancel /\ eng'[r].ppc = "probing") => eng[r].ppc = "probing"
           /\ eng[r].cancel => eng'[r].nticks <= eng[r].nticks
           /\ eng[r].cancel => ~eng'[r].udp_ran
           /\ (eng[r].cancel /\ Active(r) /\ ~Active(r)') =>
                \/ eng'[r].result = "ok" /\ obs'[r].phase_started = PhaseOrder
                \/ eng[r].ppc = "dead"
           /\ Starts(r) => run_ctx = NoRun \/ HandleTaken
      /\ (HandleTaken /\ eng[run_ctx].result = "ok") => emitted' = "RunCompleted" ]_vars

\* A cancelled run of an experimental configuration is past its upload phase: fetch_turn
\* will succeed and the UDP probe will be run in full.
C31_Witness ==
  \E r \in Runs :
    /\ eng[r].pc = "tail" /\ eng[r].cancel
    /\ obs[r].phase_started = PhaseOrder
    /\ cfg.experimental /\ cfg.net.turn

\* C32: in the UDP probe loop a response is accepted only if it carries the transaction
\* id of the current attempt; while an attempt waits for its answer the map gives its own
\* sequence number for that id and next_expected_seq does not exceed it, an accepted
\* response sets next_expected_seq to the sequence number after it, and the out-of-order
\* counter is 0 in every state, the returned summary included.
C32_OutOfOrderAlwaysZero ==
  /\ [] ( (calc # NoCall /\ calc.fn = "run_udp_like_loss_probe") =>
            /\ calc.out_of_order = 0
            /\ calc.next_expected_seq <= calc.seq + 1
            /\ calc.pc = "recv" =>
                 /\ calc.txid \in DOMAIN calc.txid_to_seq
                 /\ calc.txid_to_seq[calc.txid] = calc.seq
                 /\ calc.next_expected_seq <= calc.seq )
  /\ [][ (calc # NoCall /\ calc.fn = "run_udp_like_loss_probe"
            /\ calc'.received > calc.received) =>
           /\ calc.pc = "recv"
           /\ \E d \in calc.in_flight \ calc'.in_flight : SubSeq(d.buf, 9, 20) = calc.txid
           /\ calc'.received = calc.received + 1
           /\ calc'.next_expected_seq = calc.seq + 1
           /\ calc'.out_of_order = 0 ]_vars

\* The probe finished with every attempt answered in time and accepted.
C32_Witness ==
  /\ calc # NoCall /\ calc.fn = "run_udp_like_loss_probe"
  /\ calc.pc = "done"
  /\ calc.received = MaxAttempts /\ calc.sent = MaxAttempts
  /\ calc.next_expected_seq = MaxAttempts + 1
  /\ calc.out_of_order = 0

C34_UdpAttempts ==
  /\ [] ( (calc # NoCall /\ calc.fn = "run_udp_like_loss_probe") =>
            /\ calc.received <= calc.sent /\ calc.sent <= MaxAttempts
            /\ calc.sent = calc.seq
            /\ calc.events = IF calc.pc = "recv" THEN calc.seq - 1 ELSE calc.seq
            /\ calc.pc = "done" => calc.sent = MaxAttempts /\ calc.events = MaxAttempts
            /\ (calc.events > 0 /\ calc.pc # "recv") =>
                 calc.last = [sent |-> calc.seq, received |-> calc.received,
                              total |-> MaxAttempts, rtt |-> calc.last.rtt] )
  /\ [][ (calc # NoCall /\ calc.fn = "run_udp_like_loss_probe") =>
           /\ (calc.pc = "send" /\ calc'.pc = "recv") =>
                /\ calc'.seq = calc.seq + 1 /\ calc'.sent = calc.sent + 1
                /\ Len(calc'.txid) = 12
                /\ calc'.txid_to_seq[calc'.txid] = calc'.seq
                /\ calc'.received = calc.received /\ calc'.events = calc.events
           /\ (calc.pc = "recv" /\ calc'.pc = "send") =>
                LET read == calc.in_flight \ calc'.in_flight
                    hit == \E d \in read :
                             /\ Len(d.buf) >= 20
                             /\ SubSeq(d.buf, 1, 2) = <<1, 1>>
                             /\ SubSeq(d.buf, 5, 8) = <<33, 18, 164, 66>>
                             /\ SubSeq(d.buf, 9, 20) = calc.txid IN
                /\ Cardinality(read) <= 1
                /\ calc'.events = calc.events + 1
                /\ calc'.last.sent = calc.seq /\ calc'.last.total = MaxAttempts
                /\ calc'.last.rtt = hit
                /\ calc'.received = calc.received + (IF hit THEN 1 ELSE 0)
                /\ calc'.last.received = calc'.received
                /\ calc'.sent = calc.sent /\ calc'.seq = calc.seq
           /\ calc'.pc = "done" => calc.seq = MaxAttempts ]_vars

\* The probe is through: one attempt was answered in time, one read the request echoed
\* back instead of a response, and the last event reports the full count of attempts.
C34_Witness ==
  /\ calc # NoCall /\ calc.fn = "run_udp_like_loss_probe"
  /\ calc.pc = "done"
  /\ calc.events = MaxAttempts
  /\ calc.received = 1
  /\ calc.last.sent = MaxAttempts /\ ~calc.last.rtt
  /\ calc.read_max = 1 /\ calc.late = 0

\* C35: the buffer build_stun_binding_request yields for a 12-byte transaction id is the
\* 20 bytes 00 01, 00 00, 21 12 A4 42 followed by the id; the validator rejects it for
\* every transaction id, and accepts the same buffer with its type bytes set to 01 01
\* for the id it was built for and for no other.
C35_RequestFormat ==
  (calc # NoCall /\ calc.fn = "is_stun_binding_response" /\ calc.sent_as # <<>>) =>
    LET req == <<0, 1, 0, 0, 33, 18, 164, 66>> \o calc.sent_as IN
    /\ Len(calc.sent_as) = 12
    /\ build_stun_binding_request(calc.sent_as) = req
    /\ Len(req) = 20
    /\ calc.buf \in {req, <<1, 1>> \o SubSeq(req, 3, 20)}
    /\ calc.done =>
         /\ calc.buf = req => ~calc.out
         /\ calc.buf # req => (calc.out <=> calc.txid = calc.sent_as)

\* The request built for one transaction id, with its type bytes set to 01 01, was
\* rejected for an id that differs from it in the last byte only.
C35_Witness ==
  /\ calc # NoCall /\ calc.fn = "is_stun_binding_response"
  /\ calc.done /\ ~calc.out
  /\ calc.sent_as = [i \in 1..12 |-> 7]
  /\ calc.txid = [i \in 1..12 |-> IF i = 12 THEN 8 ELSE 7]
  /\ calc.buf[1] = 1 /\ calc.buf[2] = 1

\* C36: the quality label of the probe's summary is determined by the loss percentage
\* (sent - received) / sent * 100 of its counters: Excellent at 0, Good below 1,
\* Acceptable below 2.5, Poor below 5 and Bad otherwise, for sent = 50 and every
\* received count from 0 to 50; it is never Unknown.
C36_QualityLabel ==
  (calc # NoCall /\ calc.fn = "quality_label") =>
    /\ calc.sent = 50 /\ calc.received \in 0..50
    /\ calc.pc = "done" =>
         LET lost == calc.sent - calc.received IN
         calc.label = IF lost = 0 THEN "Excellent"
                      ELSE IF lost * 100 < calc.sent THEN "Good"
                      ELSE IF lost * 200 < 5 * calc.sent THEN "Acceptable"
                      ELSE IF lost * 100 < 5 * calc.sent THEN "Poor"
                      ELSE "Bad"

\* One answer of the fifty was lost: 2 %, labelled Acceptable.
C36_Witness ==
  /\ calc # NoCall /\ calc.fn = "quality_label"
  /\ calc.pc = "done"
  /\ calc.received = 49
  /\ calc.loss = F64(20000)
  /\ calc.label = "Acceptable"

\* C37: a step in which the bytes_per_req of a live download worker changes changes it
\* for that worker only, to a smaller size, and is the resolution of that worker's own
\* request; every other worker's size and position and the run configuration are
\* unchanged by it. The count of "reducing bytes per request" messages of the run grows,
\* by one, in exactly the steps in which the size of one of its live workers decreases: a
\* 429 answered to a worker already at the floor emits nothing.
C37_BackoffLocal ==
  [][ /\ cfg' = cfg
      /\ \A r \in Runs :
           LET b == eng[r].bytes_per_req
               nb == eng'[r].bytes_per_req
               shrunk == {w \in DOMAIN b \cap DOMAIN nb :
                            eng'[r].wpc[w] # "done" /\ nb[w] < b[w]} IN
           /\ \A w \in DOMAIN b \cap DOMAIN nb :
                (eng'[r].wpc[w] # "done" /\ nb[w] # b[w]) =>
                  /\ w \in shrunk
                  /\ eng[r].wpc[w] = "req" /\ eng'[r].wpc[w] = "check"
                  /\ \A v \in (DOMAIN b \cap DOMAIN nb) \ {w} :
                       nb[v] = b[v] /\ eng'[r].wpc[v] = eng[r].wpc[v]
           /\ Cardinality(shrunk) <= 1
           /\ ~Starts(r) =>
                obs'[r].reduced = obs[r].reduced + Cardinality(shrunk) ]_vars

\* One download worker has been throttled to the floor by two 429 answers while every
\* other worker still asks for the configured size: two messages, one per decrease.
C37_Witness ==
  \E r \in Runs :
    /\ cfg.download_bytes_per_req = 250001
    /\ DOMAIN eng[r].bytes_per_req = 1..MaxWorkers
    /\ eng[r].bytes_per_req[1] = MIN_DOWNLOAD_BYTES_PER_REQ
    /\ \A w \in 2..MaxWorkers : eng[r].bytes_per_req[w] = 250001 /\ eng[r].wpc[w] = "req"
    /\ eng[r].wpc[1] = "check"
    /\ obs[r].reduced = 2

\* The run held was not asked to stop and nothing is on its way to it: every command
\* of the TUI was taken by the controller and every message forwarded by the listener.
HeldSettled ==
  /\ run_ctx # NoRun
  /\ Active(run_ctx)
  /\ cmd_q = <<>>
  /\ eng[run_ctx].ctrl_q = <<>>
  /\ ~restart_pending
  /\ ~quit_pending
  /\ ~eng[run_ctx].cancel

\* C38: whenever a run is active and every command sent by the TUI has been processed,
\* the paused indicator of the TUI equals the paused flag of that run, for every
\* interleaving of the 'p' and 'r' keys with the cancellation of a run and the start of
\* its replacement.
C38_Original == ui.open /\ HeldSettled => ui.paused = eng[run_ctx].paused

\* C38: 'p' was pressed after 'r' while the run to be replaced was winding down; its
\* Pause(true) went to that run, and the replacement runs unpaused under an indicator
\* that says paused.
C38_Witness ==
  /\ ui.open
  /\ HeldSettled
  /\ obs[run_ctx].gen >= 1
  /\ ui.restarts >= 1
  /\ ui.paused
  /\ ~eng[run_ctx].paused

\* The runs whose samples the TUI shows: in a series, among the samples kept, or counted.
Shown == UNION {ui.series[p] \cup ui.tp[p] \cup ui.samples[p] \cup ui.counted[p] : p \in Phases}

\* The run held was started by a restart the TUI asked for, and no restart is outstanding.
NewRunHeld ==
  /\ ui.open
  /\ ui.restarts >= 1
  /\ run_ctx # NoRun
  /\ obs[run_ctx].gen >= 1
  /\ ~restart_pending
  /\ cmd_q = <<>>

\* C39: after the user asked for a restart, the live series, samples and counts the TUI
\* shows for the new run hold only samples the new run emitted; events of the cancelled
\* run that were in the event channel when the TUI reset its state are not mixed in.
C39_Original == NewRunHeld => Shown \subseteq {obs[run_ctx].gen}

\* C39: the new run is held and a latency series of the TUI, cleared when 'r' was
\* pressed, holds a sample of the run it replaced.
C39_Witness ==
  /\ NewRunHeld
  /\ Active(run_ctx)
  /\ \E p \in Phases : \E g \in ui.series[p] : g < obs[run_ctx].gen

====
